---- MODULE Spec2Model ----
(***************************************************************************)
(* Model of the extraction pipeline of solvate-ai (backend/app/modules/    *)
(* extraction): the Golden-Record store with its version assignment        *)
(* (versioning.py, router.py /confirm), the Merger (agents/merger.py) and  *)
(* the Orchestrator's single-PDF and batch pipelines                       *)
(* (agents/orchestrator.py).                                               *)
(***************************************************************************)
EXTENDS Integers, Sequences, FiniteSets, TLC

VARIABLES
    rows,         \* committed rows of table golden_records
    runs,         \* committed rows of table extraction_runs
    tx,           \* per DB session: the /confirm handler's position and its uncommitted work
    next_row_id,  \* sequence behind golden_records.id
    next_run_id,  \* sequence behind extraction_runs.id
    req_count,    \* number of /confirm requests received so far
    last_response, \* the HTTP response of the /confirm request that ended last
    group,        \* ProductGroup.partial_extractions handed to MergerAgent.merge
    merge_out,    \* outcome of merge(group)
    perm_out,     \* outcome of merging a reordering of the same group
    pdf_paths,    \* the pdf_paths argument of OrchestratorAgent.process_batch
    batch_results, \* process_batch's results list
    pipe,         \* position and locals of the process_single_pdf call in progress
    agents,       \* the agents the orchestrator has constructed so far
    audited,      \* the PartialExtraction and doc_type handed to should_audit
    decision,     \* what should_audit returned for it
    raw_data,     \* the raw JSON object handed to sanitize_extraction_json
    sanitized,    \* what the Sanitizer returned for raw
    resanitized,  \* what the Sanitizer returned for its own output
    cascade,      \* the cascade settings of the BatchExtractorService
    token_records, \* CostTracker.records
    extract_call, \* the BatchExtractorService.extract call in progress
    region_arg,   \* the ExtractionResult handed to resolve_region
    region_ret,   \* what resolve_region returned for it
    grouped,      \* the partials handed to group_by_product
    product_groups, \* what group_by_product returned for them
    llm_env, \* the provider, the settings and the replies the provider has ready for one extractor step
    llm_step, \* the DocTypeExtractor.extract call in progress
    tracker_calls, \* the arguments of the record() calls made on one CostTracker
    tracker_records, \* that CostTracker's records
    summary_ret, \* what summary() returned, if it was called since the last record()
    cli_env, \* what one CLI invocation finds: its flags, the input directory, the API key, the PDFs
    cli, \* the position of main() of batch_agent_extract.py and its exit code
    upload, \* the files of one /extract-batch request, each with what the pipeline will make of it
    batch_call, \* the position of extract_pdf_batch, its file_map and its response
    correcting, \* the partial and the AuditResult corrections handed to apply_corrections
    corrected, \* None, or the partial apply_corrections returned
    service_call \* the ExtractorService.extract call in progress

store_vars == <<rows, runs, tx, next_row_id, next_run_id, req_count, last_response>>

merge_vars == <<group, merge_out, perm_out>>

pipeline_vars == <<pdf_paths, batch_results, pipe, agents>>

audit_vars == <<audited, decision>>

\* The variables of the functions that are checked on their own.
sanitizer_vars == <<raw_data, sanitized, resanitized>>

cascade_vars == <<cascade, token_records, extract_call>>

region_vars == <<region_arg, region_ret>>

grouping_vars == <<grouped, product_groups>>

step_vars == <<llm_env, llm_step>>

tracker_vars == <<tracker_calls, tracker_records, summary_ret>>

cli_vars == <<cli_env, cli>>

upload_vars == <<upload, batch_call>>

corrections_vars == <<correcting, corrected>>

service_vars == <<service_call>>

fn_vars == <<audit_vars, sanitizer_vars, cascade_vars, region_vars, grouping_vars, step_vars, tracker_vars, cli_vars, upload_vars, corrections_vars, service_vars>>

agent_vars == <<merge_vars, pipeline_vars, fn_vars>>

vars == <<store_vars, agent_vars>>

\* Python's None for an optional value: None is <<>>, the value v is <<v>>.
None == <<>>
Some(v) == <<v>>

(***************************************************************************)
(* Bounds of the model.                                                    *)
(***************************************************************************)
MaxRequests == 2    \* /confirm requests per behaviour
MaxItems == 2       \* results per /confirm request
MaxSessions == 2    \* DB sessions that may be open at once

Sessions == 1..MaxSessions

(***************************************************************************)
(* Text: Python strings are modelled as sequences of one-character         *)
(* strings, so that lower(), upper(), slicing and "in" are computed.       *)
(***************************************************************************)
LowerCase == <<"a","b","c","d","e","f","g","h","i","j","k","l","m",
               "n","o","p","q","r","s","t","u","v","w","x","y","z">>
UpperCase == <<"A","B","C","D","E","F","G","H","I","J","K","L","M",
               "N","O","P","Q","R","S","T","U","V","W","X","Y","Z">>

lower_char(c) ==
    IF \E k \in 1..26 : UpperCase[k] = c
    THEN LowerCase[CHOOSE k \in 1..26 : UpperCase[k] = c]
    ELSE c

upper_char(c) ==
    IF \E k \in 1..26 : LowerCase[k] = c
    THEN UpperCase[CHOOSE k \in 1..26 : LowerCase[k] = c]
    ELSE c

str_lower(s) == [k \in 1..Len(s) |-> lower_char(s[k])]
str_upper(s) == [k \in 1..Len(s) |-> upper_char(s[k])]

\* s[:n]
str_prefix(s, n) == IF Len(s) <= n THEN s ELSE SubSeq(s, 1, n)

\* pat in s
str_contains(s, pat) ==
    \E k \in 0..(Len(s) - Len(pat)) : SubSeq(s, k + 1, k + Len(pat)) = pat

RECURSIVE str_join(_, _)
\* sep.join(parts)
str_join(sep, parts) ==
    IF parts = <<>> THEN <<>>
    ELSE IF Len(parts) = 1 THEN parts[1]
    ELSE parts[1] \o sep \o str_join(sep, Tail(parts))

(***************************************************************************)
(* Region resolution (versioning.py).                                      *)
(***************************************************************************)
LANG_TO_REGION ==
    [l \in {<<"e","n">>, <<"d","e">>, <<"f","r">>, <<"e","s">>, <<"i","t">>,
            <<"p","t">>, <<"n","l">>, <<"p","l">>} |-> "EU"]
    @@ (<<"j","a">> :> "JP") @@ (<<"z","h">> :> "CN") @@ (<<"k","o">> :> "KR")

GLOBAL_DOC_TYPES == {"TDS", "CoA", "Brochure", "RPI"}

resolve_region_LanguageOnly(result) ==
    IF result.document_type = "SDS"
    THEN LET lang == str_prefix(str_lower(IF result.language = <<>>
                                          THEN <<"e","n">> ELSE result.language), 2)
         IN  IF lang \in DOMAIN LANG_TO_REGION THEN LANG_TO_REGION[lang] ELSE "GLOBAL"
    ELSE "GLOBAL"

\* result: [product_name, document_type, language, global_inventories]
resolve_region(result) ==
    IF result.document_type \in GLOBAL_DOC_TYPES THEN "GLOBAL"
    ELSE IF result.document_type = "SDS" THEN
        LET raw == IF result.language = <<>>
                   THEN <<"e","n">> ELSE result.language
            lang == str_prefix(str_lower(raw), 2)
            region == IF lang \in DOMAIN LANG_TO_REGION
                      THEN LANG_TO_REGION[lang] ELSE "GLOBAL"
            inventories == result.global_inventories
            inv_text == str_join(<<" ">>,
                            [k \in 1..Len(inventories) |-> str_upper(inventories[k])])
        IN  IF inventories # <<>>
               /\ str_contains(inv_text, <<"T","S","C","A">>)
               /\ ~str_contains(inv_text, <<"R","E","A","C","H">>)
            THEN "US"
            ELSE region
    ELSE "GLOBAL"

(***************************************************************************)
(* The /confirm requests the model draws from.  A result item is           *)
(* [filename, success, result]; result is None or the part of an           *)
(* ExtractionResult that /confirm reads.                                   *)
(***************************************************************************)
ResultQ_TDS == [product_name |-> "Q", document_type |-> "TDS",
                language |-> <<"e","n">>, global_inventories |-> <<>>]
ResultP_SDS_EU == [product_name |-> "P", document_type |-> "SDS",
                   language |-> <<"E","N","-","G","B">>, global_inventories |-> <<>>]
ResultP_SDS_US == [product_name |-> "P", document_type |-> "SDS",
                   language |-> <<"e","n">>,
                   global_inventories |-> << <<"T","s","c","a">> >>]

ItemKinds ==
    { [success |-> TRUE, result |-> Some(ResultQ_TDS)],
      [success |-> TRUE, result |-> Some(ResultP_SDS_EU)],
      [success |-> TRUE, result |-> Some(ResultP_SDS_US)],
      [success |-> FALSE, result |-> None] }

\* The uploaded file of the k-th result of a request.
FileName(k) == k

Requests ==
    UNION { [1..n -> ItemKinds] : n \in 0..MaxItems }

RequestItems(results) ==
    [k \in 1..Len(results) |->
        [filename |-> FileName(k), success |-> results[k].success,
         result |-> results[k].result]]

(***************************************************************************)
(* One DB session running the /confirm handler: its position in the        *)
(* handler and its uncommitted work.  A session sees the committed rows    *)
(* with its own UPDATEs applied, plus the rows it has added (PostgreSQL    *)
(* READ COMMITTED, the session autoflushing before each query).            *)
(***************************************************************************)
IdleTx ==
    [pc |-> "idle", req_no |-> 0, successful |-> <<>>, run |-> None, i |-> 0,
     seen_keys |-> {}, key |-> None, new_version |-> 0, obsoleted |-> {}, flipped |-> {},
     added |-> {}]

NoResponse ==
    [req_no |-> 0, status |-> 0, run_id |-> 0, golden_records_created |-> 0,
     successful |-> <<>>]

ApplyFlips(rs, ids) ==
    { IF r.id \in ids THEN [r EXCEPT !.is_latest = FALSE] ELSE r : r \in rs }

ViewOf(rs, rec) == ApplyFlips(rs, rec.flipped) \cup rec.added

SetMax(S) == CHOOSE m \in S : \A x \in S : x <= m

(***************************************************************************)
(* assign_version (versioning.py), statement by statement.                 *)
(***************************************************************************)
\* select(func.max(GoldenRecord.version)) ... scalar_one_or_none()
max_version_query(view, product_name, region) ==
    LET vs == { r.version : r \in { q \in view : q.product_name = product_name
                                                  /\ q.region = region } }
    IN  IF vs = {} THEN None ELSE Some(SetMax(vs))

\* Mutant: the increment is forgotten (new_version = max_version or 1).
new_version_of_NoIncrement(max_version) ==
    IF max_version = None THEN 1 ELSE max_version[1]

\* new_version = (max_version or 0) + 1
new_version_of(max_version) ==
    (IF max_version = None THEN 0 ELSE max_version[1]) + 1

\* Mutant: the region filter of the query is forgotten.
obsoleted_ids_query_AnyRegion(view, product_name, region) ==
    { r.id : r \in { q \in view : q.product_name = product_name
                                   /\ q.is_latest = TRUE } }

\* select(GoldenRecord.id) ... where is_latest == True
obsoleted_ids_query(view, product_name, region) ==
    { r.id : r \in { q \in view : q.product_name = product_name
                                   /\ q.region = region
                                   /\ q.is_latest = TRUE } }

(***************************************************************************)
(* confirm_extraction (router.py).                                         *)
(***************************************************************************)
\* successful = [r for r in request.results if r.success and r.result]
Successful(items) ==
    SelectSeq(items, LAMBDA r : r.success /\ r.result # None)

\* key = (name, region)
KeyOf(item) == <<item.result[1].product_name, resolve_region(item.result[1])>>

\* Mutant: the duplicate check is forgotten.
IsDuplicate_Never(key, seen_keys) == FALSE

\* if key in seen_keys: continue
IsDuplicate(key, seen_keys) == key \in seen_keys

\* The head of "for item in successful": items whose key is in seen_keys are
\* skipped; the first other item gets its key recorded and assign_version
\* starts; past the last item the handler returns and get_db() commits.
RECURSIVE LoopHead(_)
LoopHead(rec) ==
    IF rec.i > Len(rec.successful) THEN [rec EXCEPT !.pc = "commit", !.key = None]
    ELSE LET key == KeyOf(rec.successful[rec.i])
         IN  IF IsDuplicate(key, rec.seen_keys)
             THEN LoopHead([rec EXCEPT !.i = rec.i + 1])
             ELSE [rec EXCEPT !.pc = "read_max", !.key = Some(key),
                              !.seen_keys = @ \cup {key}]

\* run = ExtractionRun(pdf_count=len(request.results),
\*                     golden_records_count=len(successful), status="completed")
\* error_message is not passed and stays NULL.
NewRun(id, items) ==
    [id |-> id, pdf_count |-> Len(items),
     golden_records_count |-> Len(Successful(items)), status |-> "completed",
     error_message |-> None]

\* db.add(run); await db.flush(); then the loop starts
BeginTx(req_no, run_id, items) ==
    LoopHead([IdleTx EXCEPT !.req_no = req_no,
                            !.successful = Successful(items),
                            !.run = Some(NewRun(run_id, items)),
                            !.i = 1])

\* assign_version step 1: read max(version), new_version = max + 1
ReadMaxStep(rec, view) ==
    [rec EXCEPT !.pc = "select_latest",
                !.new_version =
                    new_version_of(max_version_query(view, rec.key[1][1], rec.key[1][2]))]

\* assign_version step 2a: select the ids of the rows that are latest;
\* "if obsoleted_ids:" decides whether the UPDATE is issued
SelectLatestStep(rec, view) ==
    LET ids == obsoleted_ids_query(view, rec.key[1][1], rec.key[1][2])
    IN  [rec EXCEPT !.obsoleted = ids,
                    !.pc = IF ids # {} THEN "flip" ELSE "insert"]

\* Mutant: the UPDATE is not issued.
FlipStep_NoUpdate(rec) == [rec EXCEPT !.pc = "insert"]

\* assign_version step 2b:
\* update(GoldenRecord).where(id.in_(obsoleted_ids)).values(is_latest=False)
FlipStep(rec) ==
    [rec EXCEPT !.flipped = @ \cup rec.obsoleted, !.pc = "insert"]

\* golden = GoldenRecord(run_id=run.id, ..., version=version, is_latest=True)
NewGolden(id, run, item, region, version) ==
    [id |-> id, run_id |-> run.id, product_name |-> item.result[1].product_name,
     region |-> region, document_type |-> item.result[1].document_type,
     version |-> version, is_latest |-> TRUE, source_file |-> item.filename]

\* The unique index uq_golden_records_run_product_region (models.py).
UniqueViolation(view, golden) ==
    \E r \in view : /\ r.run_id = golden.run_id
                    /\ r.product_name = golden.product_name
                    /\ r.region = golden.region

\* db.add(golden), then the next iteration of the loop.  A row that breaks the
\* unique index fails the request.
InsertStep(rec, view, id) ==
    LET item == rec.successful[rec.i]
        golden == NewGolden(id, rec.run[1], item, rec.key[1][2], rec.new_version)
    IN  IF UniqueViolation(view, golden)
        THEN [rec EXCEPT !.pc = "failed"]
        ELSE LoopHead([rec EXCEPT !.added = @ \cup {golden},
                                  !.obsoleted = {},
                                  !.new_version = 0,
                                  !.i = rec.i + 1])

\* What get_db() commits when the handler has returned.
CommittedRows(rs, rec) == ApplyFlips(rs, rec.flipped) \cup rec.added

\* ConfirmExtractionResponse(run_id=run.id, golden_records_created=len(seen_keys))
ConfirmResponse(rec) ==
    [req_no |-> rec.req_no, status |-> 200, run_id |-> rec.run[1].id,
     golden_records_created |-> Cardinality(rec.seen_keys),
     successful |-> rec.successful]

ErrorResponse(req_no, status) ==
    [NoResponse EXCEPT !.req_no = req_no, !.status = status]

\* The handler from its first query to its return, with no other session
\* running: the statements of one request in program order.
RECURSIVE RunHandler(_, _, _)
RunHandler(rec, rs, first_id) ==
    LET view == ViewOf(rs, rec)
    IN  CASE rec.pc = "read_max" -> RunHandler(ReadMaxStep(rec, view), rs, first_id)
          [] rec.pc = "select_latest" ->
                RunHandler(SelectLatestStep(rec, view), rs, first_id)
          [] rec.pc = "flip" -> RunHandler(FlipStep(rec), rs, first_id)
          [] rec.pc = "insert" ->
                RunHandler(InsertStep(rec, view, first_id + Cardinality(rec.added)),
                           rs, first_id)
          [] OTHER -> rec

(***************************************************************************)
(* Actions of the store.                                                   *)
(***************************************************************************)
\* if not successful: raise HTTPException(status_code=400)
ConfirmRejected(results) ==
    /\ req_count < MaxRequests
    /\ Successful(RequestItems(results)) = <<>>
    /\ req_count' = req_count + 1
    /\ last_response' = ErrorResponse(req_count + 1, 400)
    /\ UNCHANGED <<rows, runs, tx, next_row_id, next_run_id>>
    /\ UNCHANGED agent_vars

\* One /confirm request from start to commit, no other request in progress.
Confirm(results) ==
    /\ req_count < MaxRequests
    /\ \A s \in Sessions : tx[s].pc = "idle"
    /\ Successful(RequestItems(results)) # <<>>
    /\ \E rec \in {RunHandler(BeginTx(req_count + 1, next_run_id,
                                       RequestItems(results)),
                               rows, next_row_id)} :
        /\ req_count' = req_count + 1
        /\ next_run_id' = next_run_id + 1
        /\ next_row_id' = next_row_id + Cardinality(rec.added)
        /\ IF rec.pc = "commit"
           THEN /\ rows' = CommittedRows(rows, rec)
                /\ runs' = runs \cup {rec.run[1]}
                /\ last_response' = ConfirmResponse(rec)
           ELSE /\ UNCHANGED <<rows, runs>>
                /\ last_response' = ErrorResponse(rec.req_no, 500)
        /\ UNCHANGED tx
    /\ UNCHANGED agent_vars

\* The same handler on session t, one statement at a time.
ConfirmBegin(t, results) ==
    /\ tx[t].pc = "idle"
    /\ req_count < MaxRequests
    /\ Successful(RequestItems(results)) # <<>>
    /\ req_count' = req_count + 1
    /\ next_run_id' = next_run_id + 1
    /\ tx' = [tx EXCEPT ![t] = BeginTx(req_count + 1, next_run_id,
                                       RequestItems(results))]
    /\ UNCHANGED <<rows, runs, next_row_id, last_response>>
    /\ UNCHANGED agent_vars

ReadMax(t) ==
    /\ tx[t].pc = "read_max"
    /\ tx' = [tx EXCEPT ![t] = ReadMaxStep(tx[t], ViewOf(rows, tx[t]))]
    /\ UNCHANGED <<rows, runs, next_row_id, next_run_id, req_count, last_response>>
    /\ UNCHANGED agent_vars

SelectLatest(t) ==
    /\ tx[t].pc = "select_latest"
    /\ tx' = [tx EXCEPT ![t] = SelectLatestStep(tx[t], ViewOf(rows, tx[t]))]
    /\ UNCHANGED <<rows, runs, next_row_id, next_run_id, req_count, last_response>>
    /\ UNCHANGED agent_vars

\* The UPDATE waits while another open transaction holds the lock of one of
\* the rows it changes.
Flip(t) ==
    /\ tx[t].pc = "flip"
    /\ \A s \in Sessions \ {t} : tx[s].flipped \cap tx[t].obsoleted = {}
    /\ tx' = [tx EXCEPT ![t] = FlipStep(tx[t])]
    /\ UNCHANGED <<rows, runs, next_row_id, next_run_id, req_count, last_response>>
    /\ UNCHANGED agent_vars

Insert(t) ==
    LET rec == InsertStep(tx[t], ViewOf(rows, tx[t]), next_row_id)
    IN  /\ tx[t].pc = "insert"
        /\ next_row_id' = next_row_id + 1
        /\ IF rec.pc = "failed"
           THEN /\ tx' = [tx EXCEPT ![t] = IdleTx]
                /\ last_response' = ErrorResponse(rec.req_no, 500)
           ELSE /\ tx' = [tx EXCEPT ![t] = rec]
                /\ UNCHANGED last_response
        /\ UNCHANGED <<rows, runs, next_run_id, req_count>>
    /\ UNCHANGED agent_vars

\* The handler returns its response and get_db() commits the session.
Commit(t) ==
    /\ tx[t].pc = "commit"
    /\ rows' = CommittedRows(rows, tx[t])
    /\ runs' = runs \cup {tx[t].run[1]}
    /\ last_response' = ConfirmResponse(tx[t])
    /\ tx' = [tx EXCEPT ![t] = IdleTx]
    /\ UNCHANGED <<next_row_id, next_run_id, req_count>>
    /\ UNCHANGED agent_vars

\* A statement of session t, or its commit, fails in the database (connection
\* lost, deadlock, serialization failure).  The handler has no try/except: the
\* exception leaves it, the request ends with a 500 and the transaction, the
\* run row it flushed included, is never committed.
DbError(t) ==
    /\ tx[t].pc \in {"read_max", "select_latest", "flip", "insert", "commit"}
    /\ tx' = [tx EXCEPT ![t] = IdleTx]
    /\ last_response' = ErrorResponse(tx[t].req_no, 500)
    /\ UNCHANGED <<rows, runs, next_row_id, next_run_id, req_count>>
    /\ UNCHANGED agent_vars

(***************************************************************************)
(* The Merger (agents/merger.py).                                          *)
(*                                                                         *)
(* JSON values are sequences of strings that start with their Python type: *)
(* None, a str, a float, a list of str, or a MendelFact dict, of which only *)
(* the "value" key is kept.  An extraction_result is a function from field *)
(* names to such values; the empty dict {} is the function with the empty  *)
(* domain.  One field of each kind of the schema is modelled.              *)
(***************************************************************************)
MaxPartials == 3    \* partial extractions per ProductGroup

PyNone == <<"None">>
PyStr(s) == <<"str", s>>
\* A float, as the text str() gives for it.
PyFloat(x) == <<"float", x>>
PyList(items) == <<"list">> \o items
MendelFact(value) == <<"dict">> \o value

IsList(v) == v[1] = "list"
IsDict(v) == v[1] = "dict"
Items(v) == Tail(v)
FactValue(v) == Tail(v)

\* Python truthiness of a value ("if x", "not x").
Truthy(v) == v \notin {PyNone, PyStr(""), PyFloat("0.0"), PyList(<<>>)}

\* str(x) of a str or a float.
py_str(v) == v[2]

EmptyDict == [k \in {} |-> PyNone]
IsEmptyDict(d) == DOMAIN d = {}
dict_get(d, k) == IF k \in DOMAIN d THEN d[k] ELSE PyNone
dict_set(d, k, v) == [x \in (DOMAIN d) \cup {k} |-> IF x = k THEN v ELSE d[x]]

DOC_TYPE_PRIORITY ==
    [t \in {"TDS", "CoA", "SDS", "RPI", "Brochure", "unknown"} |->
        CASE t = "TDS" -> 5 [] t = "CoA" -> 4 [] t = "SDS" -> 3
          [] t = "RPI" -> 2 [] t = "Brochure" -> 1 [] t = "unknown" -> 0]

\* DOC_TYPE_PRIORITY.get(p.doc_type, 0)
priority(doc_type) ==
    IF doc_type \in DOMAIN DOC_TYPE_PRIORITY THEN DOC_TYPE_PRIORITY[doc_type] ELSE 0

UNION_MERGE_FIELDS ==
    {"certifications", "global_inventories", "ghs_statements", "blocked_countries",
     "blocked_industries", "chemical_synonyms", "material_numbers",
     "extraction_warnings"}

PLAIN_STRING_FIELDS ==
    {"product_name", "product_line", "wacker_sku", "product_url", "language",
     "manufacturer", "brand", "revision_date", "main_application", "wiaw_status",
     "sales_advisory"}

SINGLE_MENDELFACT_FIELDS ==
    {"grade", "purity", "physical_form", "density", "flash_point",
     "temperature_range", "shelf_life", "cure_system", "un_number"}

PLAIN_STRING_LIST_FIELDS ==
    {"material_numbers", "chemical_components", "chemical_synonyms",
     "usage_restrictions", "packaging_options", "ghs_statements", "certifications",
     "global_inventories", "blocked_countries", "blocked_industries",
     "missing_attributes", "extraction_warnings"}

\* The sections in the order merge() passes them to _merge_section.
MergeSections ==
    <<"document_info", "identity", "chemical", "physical", "application", "safety",
      "compliance">>

\* The modelled keys of each section of ExtractionResult.
SectionKeys ==
    [s \in {"document_info", "identity", "chemical", "physical", "application",
            "safety", "compliance"} |->
        CASE s = "identity" -> <<"product_line">>
          [] s = "chemical" -> <<"cas_numbers">>
          [] s = "physical" -> <<"density">>
          [] s = "application" -> <<"packaging_options">>
          [] s = "safety" -> <<"certifications">>
          [] OTHER -> <<>>]

ResultKeys ==
    {"product_line", "cas_numbers", "density", "packaging_options", "certifications"}

\* ExtractionResult.model_dump() of the modelled fields.
Dump(product_line, cas_numbers, density, packaging_options, certifications) ==
    [k \in ResultKeys |->
        CASE k = "product_line" -> product_line
          [] k = "cas_numbers" -> cas_numbers
          [] k = "density" -> density
          [] k = "packaging_options" -> packaging_options
          [] k = "certifications" -> certifications]

\* A PartialExtraction.  missing_fields and warnings are kept as sets;
\* warnings are sequences of strings, as the conflict warnings are.
\* The PartialExtraction that DocTypeExtractor.extract builds: extracted_fields
\* are the attribute names that are not in missing_fields.
Partial(doc_type, extraction_result, missing_fields, warnings) ==
    [doc_type |-> doc_type, extraction_result |-> extraction_result,
     extracted_fields |-> ResultKeys \ missing_fields,
     missing_fields |-> missing_fields, warnings |-> warnings]

\* The PartialExtraction that the orchestrator builds for a PDF it could not
\* process: extracted_fields and missing_fields are left at their default [].
ErrorPartial(warnings) ==
    [doc_type |-> "unknown", extraction_result |-> EmptyDict,
     extracted_fields |-> {}, missing_fields |-> {}, warnings |-> warnings]

\* DocTypeExtractor.extract on failure: empty result, every attribute missing.
FailedExtraction(doc_type) ==
    Partial(doc_type, EmptyDict, ResultKeys, {<<"Extraction error">>})

ResultA ==
    Dump(PyStr("a"), MendelFact(PyNone), MendelFact(PyStr("1")),
         PyList(<<"x">>), PyList(<<"i", "i">>))

ResultB ==
    Dump(PyNone, MendelFact(PyStr("c")), MendelFact(PyNone),
         PyList(<<>>), PyList(<<"r">>))

ResultC ==
    Dump(PyStr("b"), MendelFact(PyStr("d")), PyNone,
         PyList(<<"y">>), PyList(<<"i", "r">>))

ResultD ==
    Dump(PyStr(""), MendelFact(PyStr("c")), MendelFact(PyStr("2")),
         PyList(<<>>), PyList(<<>>))

\* The partial extractions a group is drawn from.
PartialKinds ==
    { Partial("TDS", ResultA, {"cas_numbers"}, {<<"w1">>}),
      Partial("TDS", ResultB, {"product_line", "density", "packaging_options"}, {}),
      Partial("TDS", ResultD, {"product_line", "packaging_options", "certifications"}, {}),
      FailedExtraction("TDS"),
      Partial("SDS", ResultA, {"cas_numbers"}, {<<"w1">>}),
      Partial("SDS", ResultB, {"product_line", "density", "packaging_options"}, {}),
      Partial("SDS", ResultC, {"density"}, {<<"w2">>}),
      ErrorPartial({<<"PDF parse error">>}) }

Groups == UNION { [1..n -> PartialKinds] : n \in 1..MaxPartials }

\* sorted(partials, key=priority, reverse=True) as the indices of partials in
\* sorted order.  Python's sort is stable, also with reverse=True: a partial
\* comes after those of higher priority and those of its priority before it.
sorted_order(partials) ==
    LET n == Len(partials)
        pos == [i \in 1..n |->
                   1 + Cardinality({ j \in 1..n :
                          \/ priority(partials[j].doc_type) > priority(partials[i].doc_type)
                          \/ /\ priority(partials[j].doc_type) = priority(partials[i].doc_type)
                             /\ j < i })]
    IN  [k \in 1..n |-> CHOOSE i \in 1..n : pos[i] = k]

\* Mutant: the partials are merged in input order.
sorted_partials_Unsorted(partials) == partials

sorted_partials(partials) ==
    [k \in 1..Len(partials) |-> partials[sorted_order(partials)[k]]]

\* for item in source_val: if str(item) not in existing: target_val.append(item)
RECURSIVE append_new(_, _)
append_new(target_items, source_items) ==
    IF source_items = <<>> THEN target_items
    ELSE append_new(
             IF \E k \in 1..Len(target_items) : target_items[k] = Head(source_items)
             THEN target_items
             ELSE Append(target_items, Head(source_items)),
             Tail(source_items))

\* The conflict warning of _merge_section.
ConflictWarning(section, key, t_value, s_value, source_type) ==
    <<"Conflict in", section, key, "keeping", py_str(t_value), "discarding",
      py_str(s_value), "from", source_type>>

\* One iteration of "for key, source_val in source_section.items()" with source
\* the j-th sorted partial.  m.merged is the dict being built, m.alias[key] is
\* the sorted partial whose list object m.merged[key] is (0: merged's own).
merge_key(m, j, section, key) ==
    LET source_val == m.parts[j].extraction_result[key]
        target_val == dict_get(m.merged, key)
        source_type == m.parts[j].doc_type
        filled == [m EXCEPT !.merged = dict_set(@, key, source_val)]
    IN  IF source_val = PyNone THEN m
        ELSE IF key \in UNION_MERGE_FIELDS THEN
            IF IsList(source_val) /\ IsList(target_val)
            THEN LET combined == PyList(append_new(Items(target_val), Items(source_val)))
                     a == m.alias[key]
                 IN  [m EXCEPT
                        !.merged = dict_set(@, key, combined),
                        !.parts = IF a = 0 THEN @
                                  ELSE [@ EXCEPT ![a].extraction_result =
                                                     dict_set(@, key, combined)]]
            ELSE IF IsList(source_val) /\ (target_val = PyNone \/ target_val = PyList(<<>>))
            THEN [filled EXCEPT !.alias[key] = j]
            ELSE m
        ELSE IF key \in PLAIN_STRING_FIELDS THEN
            IF ~Truthy(target_val) /\ Truthy(source_val) THEN filled ELSE m
        ELSE IF key \in PLAIN_STRING_LIST_FIELDS THEN
            IF (~Truthy(target_val) \/ target_val = PyList(<<>>)) /\ Truthy(source_val)
            THEN filled ELSE m
        ELSE IF key \in SINGLE_MENDELFACT_FIELDS \/ key = "cas_numbers" THEN
            IF target_val = PyNone /\ source_val # PyNone THEN filled
            ELSE IF /\ target_val # PyNone /\ source_val # PyNone
                    /\ IsDict(target_val) /\ IsDict(source_val)
                    /\ Truthy(FactValue(target_val)) /\ Truthy(FactValue(source_val))
                    /\ py_str(FactValue(target_val)) # py_str(FactValue(source_val))
            THEN [m EXCEPT !.warnings =
                     @ \cup {ConflictWarning(section, key, FactValue(target_val),
                                             FactValue(source_val), source_type)}]
            ELSE m
        ELSE IF target_val = PyNone /\ source_val # PyNone THEN filled
        ELSE m

RECURSIVE merge_keys(_, _, _, _)
merge_keys(m, j, section, keys) ==
    IF keys = <<>> THEN m
    ELSE merge_keys(merge_key(m, j, section, Head(keys)), j, section, Tail(keys))

\* MergerAgent._merge_section
merge_section(m, j, section) == merge_keys(m, j, section, SectionKeys[section])

RECURSIVE merge_sections(_, _, _)
merge_sections(m, j, sections) ==
    IF sections = <<>> THEN m
    ELSE merge_sections(merge_section(m, j, Head(sections)), j, Tail(sections))

\* for partial in sorted_partials[1:]: skip an empty extraction_result
RECURSIVE merge_loop(_, _)
merge_loop(m, j) ==
    IF j > Len(m.parts) THEN m
    ELSE IF IsEmptyDict(m.parts[j].extraction_result) THEN merge_loop(m, j + 1)
    ELSE merge_loop(merge_sections(m, j, MergeSections), j + 1)

\* Mutant: the missing fields of the highest-priority partial alone.
compute_missing_First(partials) == partials[1].missing_fields

\* MergerAgent._compute_missing
compute_missing(partials) ==
    { f \in partials[1].missing_fields :
         \A k \in 2..Len(partials) : f \in partials[k].missing_fields }

\* ExtractionResult.model_validate: cas_numbers is required, a key that is
\* absent takes its default ([] for a list field, None otherwise).
ValidationFails(data) == "cas_numbers" \notin DOMAIN data

model_validate(data) ==
    [k \in ResultKeys |->
        IF k \in DOMAIN data THEN data[k]
        ELSE IF k \in PLAIN_STRING_LIST_FIELDS THEN PyList(<<>>) ELSE PyNone]

\* What a call of merge leaves behind: how it ended, the ExtractionResult it
\* returned and the caller's partial_extractions after the call.
Outcome(status, result, missing_attributes, extraction_warnings, partials) ==
    [status |-> status, result |-> result,
     missing_attributes |-> missing_attributes,
     extraction_warnings |-> extraction_warnings, partials |-> partials]

NoOutcome == Outcome("none", EmptyDict, {}, {}, <<>>)

\* The end of merge: missing_attributes, extraction_warnings, model_validate.
\* m is the state the loop over sorted_partials[1:] ended in.
merge_finish(partials, sorted, m) ==
    LET order == sorted_order(partials)
        after == [i \in 1..Len(partials) |->
                     m.parts[CHOOSE k \in 1..Len(order) : order[k] = i]]
        all_warnings ==
            UNION { sorted[k].warnings : k \in 1..Len(sorted) } \cup m.warnings
    IN  IF ValidationFails(m.merged)
        THEN Outcome("ValidationError", EmptyDict, {}, {}, after)
        ELSE Outcome("ok", model_validate(m.merged), compute_missing(sorted),
                     all_warnings, after)

\* The merge of two or more partials, sorted by priority.
merge_sorted(partials, sorted) ==
    CHOOSE out \in
        { merge_finish(partials, sorted, m) :
            m \in { merge_loop([merged |-> sorted[1].extraction_result,
                                warnings |-> {},
                                parts |-> sorted,
                                alias |-> [k \in UNION_MERGE_FIELDS |-> 0]], 2) } } : TRUE

\* MergerAgent.merge
merge(partials) ==
    IF partials = <<>>
    THEN Outcome("ValueError", EmptyDict, {}, {}, partials)
    ELSE IF Len(partials) = 1
    THEN IF ValidationFails(partials[1].extraction_result)
         THEN Outcome("ValidationError", EmptyDict, {}, {}, partials)
         ELSE Outcome("ok", model_validate(partials[1].extraction_result),
                      partials[1].missing_fields, partials[1].warnings, partials)
    ELSE CHOOSE out \in { merge_sorted(partials, sorted) :
                              sorted \in {sorted_partials(partials)} } : TRUE

\* The reorderings of a list of n elements.
Reorderings(n) ==
    { q \in [1..n -> 1..n] : \A i \in 1..n : \E k \in 1..n : q[k] = i }

Permuted(partials, q) == [k \in 1..Len(partials) |-> partials[q[k]]]

\* MergerAgent.merge(group)
Merge ==
    /\ group # <<>>
    /\ merge_out.status = "none"
    /\ merge_out' = merge(group)
    /\ UNCHANGED <<group, perm_out>>
    /\ UNCHANGED <<store_vars, pipeline_vars, fn_vars>>

\* MergerAgent.merge on the same partials in the order q.
MergePermuted(q) ==
    /\ merge_out.status # "none"
    /\ perm_out.out.status = "none"
    /\ perm_out' = [perm |-> q, out |-> merge(Permuted(group, q))]
    /\ UNCHANGED <<group, merge_out>>
    /\ UNCHANGED <<store_vars, pipeline_vars, fn_vars>>

MergeIdle ==
    /\ merge_out = NoOutcome
    /\ perm_out = [perm |-> <<>>, out |-> NoOutcome]

(***************************************************************************)
(* The Orchestrator (agents/orchestrator.py): process_batch calls          *)
(* process_single_pdf for each path in turn.  A path is the sequence of    *)
(* the components of the string it was given as.  What the parser, the     *)
(* prompt files and the LLM calls deliver is an input of each step.        *)
(***************************************************************************)
MaxPaths == 2       \* paths per process_batch call

PathInputs == { <<"a.pdf">>, <<".", "b.pdf">> }

Batches == UNION { [1..n -> PathInputs] : n \in 0..MaxPaths }

\* str(Path(p)): pathlib drops the "." components of a path.
IsNamedComponent(c) == c # "."
pathlib_str(p) == SelectSeq(p, IsNamedComponent)

\* The doc types the classifier is seen to return; "unknown" is also what
\* ClassifierAgent.classify returns when the LLM call fails.
ClassifiedDocTypes == {"TDS", "SDS", "unknown"}

EXTRACTOR_REGISTRY ==
    [t \in {"TDS", "SDS", "RPI", "CoA", "Brochure"} |->
        CASE t = "TDS" -> "TDSExtractor"
          [] t = "SDS" -> "SDSExtractor"
          [] t = "RPI" -> "RPIExtractor"
          [] t = "CoA" -> "CoAExtractor"
          [] t = "Brochure" -> "BrochureExtractor"]

\* get_extractor: EXTRACTOR_REGISTRY.get(doc_type, TDSExtractor); the class
\* of the extractor that is built.
get_extractor(doc_type) ==
    IF doc_type \in DOMAIN EXTRACTOR_REGISTRY
    THEN EXTRACTOR_REGISTRY[doc_type] ELSE "TDSExtractor"

CRITICAL_FIELDS_BY_DOC_TYPE ==
    [t \in {"SDS", "RPI", "TDS", "CoA"} |->
        CASE t = "SDS" -> {"cas_numbers", "ghs_statements", "un_number", "flash_point"}
          [] t = "RPI" -> {"cas_numbers", "global_inventories", "certifications"}
          [] t = "TDS" -> {"density", "grade", "physical_form"}
          [] t = "CoA" -> {"cas_numbers", "purity"}]

\* should_audit.  The number of low-confidence Facts and the format checks
\* depend on parts of the result that are not modelled; they are inputs.
should_audit(partial, doc_type, low_conf_count, hallucination_flags) ==
    IF IsEmptyDict(partial.extraction_result) THEN FALSE
    ELSE \/ low_conf_count >= 3
         \/ (IF doc_type \in DOMAIN CRITICAL_FIELDS_BY_DOC_TYPE
             THEN CRITICAL_FIELDS_BY_DOC_TYPE[doc_type] ELSE {})
               \cap partial.missing_fields # {}
         \/ Cardinality(partial.warnings) >= 3
         \/ hallucination_flags > 0

\* A PartialExtraction as the orchestrator holds it: with its source_file and
\* its audit_result, None until the partial is audited.
WithSourceFile(partial, source_file) ==
    [source_file |-> source_file, doc_type |-> partial.doc_type,
     extraction_result |-> partial.extraction_result,
     extracted_fields |-> partial.extracted_fields,
     missing_fields |-> partial.missing_fields, warnings |-> partial.warnings,
     audit_result |-> None]

\* process_single_pdf: the partial returned when the PDF cannot be parsed.
ParseErrorPartial(pdf_path) ==
    WithSourceFile(ErrorPartial({<<"PDF parse error">>}),
                   pathlib_str(pdf_path))

\* process_batch: the partial appended when process_single_pdf raised.
ProcessingErrorPartial(pdf_path) ==
    WithSourceFile(ErrorPartial({<<"Processing error">>}),
                   pdf_path)

\* DocTypeExtractor.extract: what a successful call returns.
Extracted(doc_type) == Partial(doc_type, ResultC, {"density"}, {<<"w2">>})

\* What the auditor's LLM call delivers: an error (the provider call fails,
\* the content is not the expected JSON, the AuditResult does not validate),
\* or a reply with its corrections and its pass_audit.  The corrections are
\* none, one whose corrected_value is null ("flag"), or one of cas_numbers
\* ("applied").
AuditKinds == {"none", "flag", "applied"}

AuditErrors == {"provider error", "invalid JSON", "invalid AuditResult"}

AuditReplies ==
    [error : AuditErrors, corrections : {"none"}, pass_audit : {FALSE}]
    \cup [error : {"none"}, corrections : AuditKinds, pass_audit : BOOLEAN]

AuditResult(corrections, flagged_issues, pass_audit) ==
    [corrections |-> corrections, flagged_issues |-> flagged_issues,
     pass_audit |-> pass_audit]

\* Mutant: except Exception: the audit is reported as not passed.
audit_ErrorFailsAudit(reply) ==
    IF reply.error # "none"
    THEN AuditResult("none", {<<"Audit error">>}, FALSE)
    ELSE AuditResult(reply.corrections, {}, reply.pass_audit)

\* AuditorAgent.audit: the AuditResult of the reply, or, in except Exception,
\* a passing result with the error as its flagged issue.
audit(reply) ==
    IF reply.error # "none"
    THEN AuditResult("none", {<<"Audit error">>}, TRUE)
    ELSE AuditResult(reply.corrections, {}, reply.pass_audit)

apply_corrections(partial, corrections) ==
    CASE corrections = "none" -> partial
      [] corrections = "flag" ->
            [partial EXCEPT !.warnings = @ \cup {<<"Audit: may be incorrect">>}]
      [] corrections = "applied" ->
            [partial EXCEPT
                !.extraction_result = dict_set(@, "cas_numbers", MendelFact(PyStr("9"))),
                !.warnings = @ \cup {<<"Audit: corrections applied">>}]

NoPartial == WithSourceFile(ErrorPartial({}), <<>>)

\* Between two process_single_pdf calls; idx is the position of the next path
\* and failed tells how the previous PDF failed, if it did.  calls is what
\* the running process_single_pdf has called so far, in order: parse_pdf,
\* the classifier, the extract of an extractor class, should_audit, the
\* auditor, apply_corrections; audit_triggered is what should_audit said.
IdlePipe(idx, failed) ==
    [pc |-> "idle", idx |-> idx, doc_type |-> "unknown", partial |-> NoPartial,
     failed |-> failed, audit_error |-> "none", calls |-> <<>>,
     audit_triggered |-> "unset"]

\* Mutant: except Exception: continue.
batch_step_SkipFailed(batch, p, pdf_path) ==
    IF p.pc = "raised" THEN batch ELSE Append(batch, p.partial)

\* process_batch: try: results.append(process_single_pdf(pdf_path))
\*                except Exception: results.append(PartialExtraction(...))
batch_step(batch, p, pdf_path) ==
    IF p.pc = "raised"
    THEN Append(batch, ProcessingErrorPartial(pdf_path))
    ELSE Append(batch, p.partial)

\* process_single_pdf step 1: read_bytes and parse_pdf inside try/except.
ParsePdf(ok) ==
    /\ pipe.pc = "idle"
    /\ pipe.idx <= Len(pdf_paths)
    /\ pipe' = IF ok
               THEN [pipe EXCEPT !.pc = "parsed", !.failed = "none",
                                 !.calls = Append(@, "parse_pdf")]
               ELSE [pipe EXCEPT !.pc = "returned", !.failed = "parse",
                                 !.calls = Append(@, "parse_pdf"),
                                 !.partial = ParseErrorPartial(pdf_paths[pipe.idx])]
    /\ UNCHANGED <<pdf_paths, batch_results, agents>>
    /\ UNCHANGED <<store_vars, merge_vars, fn_vars>>

\* Step 2: _get_classifier() builds the ClassifierAgent on first use, which
\* raises if its prompt cannot be loaded; classify() itself never raises.
Classify(prompt_ok, doc_type) ==
    /\ pipe.pc = "parsed"
    /\ IF <<"classifier">> \notin agents /\ ~prompt_ok
       THEN /\ pipe' = [pipe EXCEPT !.pc = "raised", !.failed = "raise"]
            /\ UNCHANGED agents
       ELSE /\ pipe' = [pipe EXCEPT !.pc = "classified", !.doc_type = doc_type,
                                   !.calls = Append(@, "classify")]
            /\ agents' = agents \cup {<<"classifier">>}
    /\ UNCHANGED <<pdf_paths, batch_results>>
    /\ UNCHANGED <<store_vars, merge_vars, fn_vars>>

\* Step 3: _get_extractor(doc_type) builds the extractor on first use, which
\* raises if its prompt cannot be loaded; extract() returns a failed partial
\* instead of raising; then partial.source_file = str(pdf_path).
Extract(prompt_ok, extract_ok) ==
    /\ pipe.pc = "classified"
    /\ IF <<"extractor", pipe.doc_type>> \notin agents /\ ~prompt_ok
       THEN /\ pipe' = [pipe EXCEPT !.pc = "raised", !.failed = "raise"]
            /\ UNCHANGED agents
       ELSE /\ pipe' = [pipe EXCEPT
                          !.pc = "extracted",
                          !.calls = Append(@, get_extractor(pipe.doc_type)),
                          !.failed = IF extract_ok THEN "none" ELSE "extract",
                          !.partial = WithSourceFile(
                              IF extract_ok THEN Extracted(pipe.doc_type)
                              ELSE FailedExtraction(pipe.doc_type),
                              pathlib_str(pdf_paths[pipe.idx]))]
            /\ agents' = agents \cup {<<"extractor", pipe.doc_type>>}
    /\ UNCHANGED <<pdf_paths, batch_results>>
    /\ UNCHANGED <<store_vars, merge_vars, fn_vars>>

\* Step 4: should_audit; if triggered _get_auditor() builds the AuditorAgent
\* on first use, which raises if its prompt cannot be loaded; audit() never
\* raises; partial.audit_result = audit_result; apply_corrections if there
\* are corrections; return partial.
Audit(low_conf_count, hallucination_flags, prompt_ok, reply) ==
    /\ pipe.pc = "extracted"
    /\ IF ~should_audit(pipe.partial, pipe.doc_type, low_conf_count, hallucination_flags)
       THEN /\ pipe' = [pipe EXCEPT !.pc = "returned",
                                   !.calls = Append(@, "should_audit"),
                                   !.audit_triggered = "no"]
            /\ UNCHANGED agents
       ELSE IF <<"auditor">> \notin agents /\ ~prompt_ok
       THEN /\ pipe' = [pipe EXCEPT !.pc = "raised", !.failed = "raise",
                                   !.calls = Append(@, "should_audit"),
                                   !.audit_triggered = "yes"]
            /\ UNCHANGED agents
       ELSE /\ \E audit_result \in {audit(reply)} :
                 pipe' = [pipe EXCEPT
                            !.pc = "returned",
                            !.calls = @ \o <<"should_audit", "audit">> \o
                                (IF audit_result.corrections # "none"
                                 THEN <<"apply_corrections">> ELSE <<>>),
                            !.audit_triggered = "yes",
                            !.audit_error = reply.error,
                            !.partial = apply_corrections(
                                [pipe.partial EXCEPT
                                    !.audit_result = Some(audit_result)],
                                audit_result.corrections)]
            /\ agents' = agents \cup {<<"auditor">>}
    /\ UNCHANGED <<pdf_paths, batch_results>>
    /\ UNCHANGED <<store_vars, merge_vars, fn_vars>>

\* process_batch: the partial, or the one made for the exception, is appended
\* and the loop goes on to the next path.
Collect ==
    /\ pipe.pc \in {"returned", "raised"}
    /\ batch_results' = batch_step(batch_results, pipe, pdf_paths[pipe.idx])
    /\ pipe' = IdlePipe(pipe.idx + 1, pipe.failed)
    /\ UNCHANGED <<pdf_paths, agents>>
    /\ UNCHANGED <<store_vars, merge_vars, fn_vars>>

PipelineIdle ==
    /\ batch_results = <<>>
    /\ pipe = IdlePipe(1, "none")
    /\ agents = {}


(***************************************************************************)
(* The audit trigger (agents/auditor.py): should_audit with the two        *)
(* helpers that read the extraction result.  Here an extraction result is  *)
(* the dict of the fields the trigger reads; a Fact field is None or the   *)
(* Fact, a Fact is its value and its confidence, and a value that is null  *)
(* or "" is the empty string.                                              *)
(***************************************************************************)
MaxGhs == 6         \* GHS statements in an extraction result

IsDigit(c) == c \in {"0", "1", "2", "3", "4", "5", "6", "7", "8", "9"}

IsSpace(c) == c \in {" "}

\* s.strip()
str_strip(s) ==
    LET kept == { k \in 1..Len(s) : ~IsSpace(s[k]) }
    IN  IF kept = {} THEN <<>>
        ELSE SubSeq(s, CHOOSE k \in kept : \A j \in kept : k <= j,
                       CHOOSE k \in kept : \A j \in kept : k >= j)

RECURSIVE str_split(_, _)
\* s.split(sep) for a one-character sep
str_split(s, sep) ==
    IF \A k \in 1..Len(s) : s[k] # sep THEN <<s>>
    ELSE LET k == CHOOSE i \in 1..Len(s) :
                      s[i] = sep /\ \A j \in 1..(i - 1) : s[j] # sep
         IN  <<SubSeq(s, 1, k - 1)>> \o str_split(SubSeq(s, k + 1, Len(s)), sep)

\* re.match(r"^\d{2,7}-\d{2}-\d$", s)
re_match_cas(s) ==
    \E n \in 2..7 :
        /\ Len(s) = n + 5
        /\ \A k \in 1..n : IsDigit(s[k])
        /\ s[n + 1] = "-" /\ IsDigit(s[n + 2]) /\ IsDigit(s[n + 3])
        /\ s[n + 4] = "-" /\ IsDigit(s[n + 5])

\* re.match(r"^(UN\s?)?\d{4}$", s)
re_match_un(s) ==
    \E p \in {0, 2, 3} :
        /\ Len(s) = p + 4
        /\ p >= 2 => (s[1] = "U" /\ s[2] = "N")
        /\ p = 3 => IsSpace(s[3])
        /\ \A k \in (p + 1)..(p + 4) : IsDigit(s[k])

\* re.match(r"^[HPE]\d{3}", s)
re_match_ghs(s) ==
    /\ Len(s) >= 4
    /\ s[1] \in {"H", "P", "E"}
    /\ \A k \in 2..4 : IsDigit(s[k])

AuditFact(value, confidence) == [value |-> value, confidence |-> confidence]

AuditedResult(cas_numbers, un_number, density, flash_point, ghs_statements) ==
    [cas_numbers |-> cas_numbers, un_number |-> un_number, density |-> density,
     flash_point |-> flash_point, ghs_statements |-> ghs_statements]

AuditedFactFields == {"cas_numbers", "un_number", "density", "flash_point"}

\* _count_low_confidence: the fields that are a dict with confidence "low".
count_low_confidence(extraction_result) ==
    Cardinality({ f \in AuditedFactFields \cap DOMAIN extraction_result :
                     /\ extraction_result[f] # None
                     /\ extraction_result[f][1].confidence = "low" })

\* The flags for the comma-separated parts of the CAS value.
cas_flags(extraction_result) ==
    LET cas == extraction_result.cas_numbers
    IN  IF cas # None /\ cas[1].value # <<>>
        THEN LET split == str_split(cas[1].value, ",")
                 cas_parts == [k \in 1..Len(split) |-> str_strip(split[k])]
                 Suspicious(part) == part # <<>> /\ ~re_match_cas(str_strip(part))
             IN  Cardinality({ k \in 1..Len(cas_parts) : Suspicious(cas_parts[k]) })
        ELSE 0

\* The flag for the UN number.
un_flags(extraction_result) ==
    LET un == extraction_result.un_number
    IN  IF un # None /\ un[1].value # <<>>
           /\ ~re_match_un(str_upper(str_strip(un[1].value)))
        THEN 1 ELSE 0

\* Mutant: every GHS statement is checked.
ghs_flags_All(extraction_result) ==
    LET ghs == extraction_result.ghs_statements
    IN  IF \E k \in 1..Len(ghs) :
              str_strip(ghs[k]) # <<>> /\ ~re_match_ghs(str_strip(ghs[k]))
        THEN 1 ELSE 0

\* The flag for the GHS statements: for stmt in ghs[:5], one is enough.
ghs_flags(extraction_result) ==
    LET ghs == str_prefix(extraction_result.ghs_statements, 5)
    IN  IF \E k \in 1..Len(ghs) :
              str_strip(ghs[k]) # <<>> /\ ~re_match_ghs(str_strip(ghs[k]))
        THEN 1 ELSE 0

\* _check_hallucination_indicators, as the number of flags it returns.
check_hallucination_indicators(extraction_result) ==
    IF IsEmptyDict(extraction_result) THEN 0
    ELSE cas_flags(extraction_result) + un_flags(extraction_result)
            + ghs_flags(extraction_result)

\* The extraction results should_audit is tried on.
CasKinds ==
    { None,
      <<AuditFact(<<>>, "low")>>,
      <<AuditFact(<<"5","0","-","0","0","-","0">>, "high")>>,
      <<AuditFact(<<"5","0","-","0","0","-","0",","," ","6","4","-","1","7","-","5">>, "low")>>,
      <<AuditFact(<<"5","0","-","0","0","-","0",",","x">>, "high")>> }

UnKinds ==
    { None,
      <<AuditFact(<<"U","N","1","2","0","3">>, "high")>>,
      <<AuditFact(<<" ","u","n"," ","1","2","0","3">>, "low")>>,
      <<AuditFact(<<"1","2">>, "high")>> }

GhsOk == <<"H","2","2","5"," ","x">>
GhsBad == <<"f","l","a","m">>
GhsBlank == <<" ">>

\* Lists of well-formed statements, with at most one that is not, first or last.
GhsLists ==
    UNION { { [k \in 1..n |-> GhsOk],
              [k \in 1..n |-> IF k = n THEN GhsBad ELSE GhsOk],
              [k \in 1..n |-> IF k = 1 THEN GhsBad ELSE GhsOk],
              [k \in 1..n |-> IF k = n THEN GhsBlank ELSE GhsOk] } : n \in 0..MaxGhs }

AuditedResults ==
    { AuditedResult(cas, un, density, flash_point, ghs) :
        cas \in CasKinds, un \in UnKinds,
        density \in {None, <<AuditFact(<<"1">>, "low")>>},
        flash_point \in {None, <<AuditFact(<<"2">>, "low")>>},
        ghs \in GhsLists }

AuditedDocTypes == {"TDS", "SDS", "RPI", "unknown"}

AuditedPartials ==
    { Partial(doc_type, result, missing_fields, warnings) :
        doc_type \in AuditedDocTypes, result \in AuditedResults,
        missing_fields \in {{}, {"density"}, {"cas_numbers"}, {"product_line"}},
        warnings \in {{<<"w1">>}, {<<"w1">>, <<"w2">>, <<"w3">>}} }
    \cup { FailedExtraction(doc_type) : doc_type \in AuditedDocTypes }
    \cup { ErrorPartial({<<"PDF parse error">>, <<"w2">>, <<"w3">>}) }

\* should_audit(partial, doc_type) as process_single_pdf calls it.
ShouldAudit ==
    /\ decision = None
    /\ decision' = Some(should_audit(audited, audited.doc_type,
                            count_low_confidence(audited.extraction_result),
                            check_hallucination_indicators(audited.extraction_result)))
    /\ UNCHANGED audited
    /\ UNCHANGED <<store_vars, merge_vars, pipeline_vars, sanitizer_vars, cascade_vars, region_vars, grouping_vars, step_vars, tracker_vars, cli_vars, upload_vars, corrections_vars, service_vars>>

AuditIdle ==
    /\ audited = ErrorPartial({})
    /\ decision = None


(***************************************************************************)
(* The cascade of BatchExtractorService.extract (batch_extractor.py) with  *)
(* the Cost Tracker's records.  What an extractor returns for a PDF is an  *)
(* input: an ExtractionWithTokens with an error, or with a result that     *)
(* lists some number of missing attributes.                                *)
(***************************************************************************)
MaxCalls == 2       \* extract calls on one BatchExtractorService
MaxMissing == 3     \* missing attributes in one extraction result

\* ExtractionWithTokens: result is None exactly when error is set; a result
\* is known by the length of its missing_attributes.
ExtractionWithTokens(provider, error, missing) ==
    [provider |-> provider, error |-> error, missing |-> missing]

ExtractorReturns(provider) ==
    { ExtractionWithTokens(provider, TRUE, 0) }
    \cup { ExtractionWithTokens(provider, FALSE, n) : n \in 0..MaxMissing }

\* The fallback extractor's extract may also raise before it calls the
\* provider.
FallbackOutcomes == {None} \cup { <<out>> : out \in ExtractorReturns("anthropic") }

\* BatchExtractorService.__init__: the fallback extractor is None when the
\* cascade is disabled or the extractor could not be built.
CascadeSettings ==
    { s \in [cascade_enabled : BOOLEAN, has_fallback : BOOLEAN,
             cascade_threshold : 0..(MaxMissing - 1)] :
        s.has_fallback => s.cascade_enabled }

\* CostTracker.record: the TokenRecord appended to records.
TokenRecord(extraction, file_name, cascade_triggered) ==
    [provider |-> extraction.provider, file_name |-> file_name,
     cascade_triggered |-> cascade_triggered]

\* Mutant: the cascade also triggers at the threshold.
cascade_needed_AtThreshold(s, primary) ==
    /\ s.cascade_enabled
    /\ s.has_fallback
    /\ primary.missing >= s.cascade_threshold

\* if self._cascade_enabled and self._fallback_extractor is not None
\*    and primary_missing > self._cascade_threshold
cascade_needed(s, primary) ==
    /\ s.cascade_enabled
    /\ s.has_fallback
    /\ primary.missing > s.cascade_threshold

\* Mutant: the fallback also wins a tie.
fallback_improved_OnTie(primary, fallback) == fallback.missing <= primary.missing

\* if fallback_missing < primary_missing: return fallback, else: return primary
fallback_improved(primary, fallback) == fallback.missing < primary.missing

\* Mutant: each record is tagged by whether its side lost.
fallback_records_ByWinner(primary, fallback, file_name) ==
    IF ~fallback.error /\ fallback.missing < primary.missing
    THEN <<TokenRecord(fallback, file_name, FALSE)>>
    ELSE <<TokenRecord(fallback, file_name, TRUE)>>

\* self.cost_tracker.record(..., cascade_triggered=True) for the fallback
fallback_records(primary, fallback, file_name) ==
    <<TokenRecord(fallback, file_name, TRUE)>>

\* The extract call in progress: its file, what the extractors returned, how
\* often the fallback extractor was called and what extract returned.
NoExtraction == ExtractionWithTokens("", TRUE, 0)

IdleExtraction(calls) ==
    [pc |-> "idle", calls |-> calls, primary |-> NoExtraction,
     fallback |-> None, fallback_calls |-> 0, returned |-> NoExtraction]

\* Step 1: the primary extraction and its record; return the primary if it
\* failed or if no cascade is needed.
PrimaryExtract(primary) ==
    /\ extract_call.pc \in {"idle", "done"}
    /\ extract_call.calls < MaxCalls
    /\ token_records' = Append(token_records,
                               TokenRecord(primary, extract_call.calls + 1, FALSE))
    /\ extract_call' =
          IF primary.error \/ ~cascade_needed(cascade, primary)
          THEN [IdleExtraction(extract_call.calls + 1) EXCEPT
                   !.pc = "done", !.primary = primary, !.returned = primary]
          ELSE [IdleExtraction(extract_call.calls + 1) EXCEPT
                   !.pc = "cascade", !.primary = primary]
    /\ UNCHANGED cascade
    /\ UNCHANGED <<store_vars, merge_vars, pipeline_vars, audit_vars, sanitizer_vars, region_vars, grouping_vars, step_vars, tracker_vars, cli_vars, upload_vars, corrections_vars, service_vars>>

\* Step 2: the fallback extraction, its record, and the better result; the
\* primary if the fallback raised or failed.
FallbackExtract(outcome) ==
    /\ extract_call.pc = "cascade"
    /\ IF outcome = None
       THEN /\ extract_call' = [extract_call EXCEPT
                                !.pc = "done", !.fallback_calls = extract_call.fallback_calls + 1,
                                !.returned = extract_call.primary]
            /\ UNCHANGED token_records
       ELSE /\ token_records' =
                  token_records \o fallback_records(extract_call.primary, outcome[1],
                                                     extract_call.calls)
            /\ extract_call' =
                  [extract_call EXCEPT
                     !.pc = "done", !.fallback_calls = extract_call.fallback_calls + 1, !.fallback = outcome,
                     !.returned =
                        IF outcome[1].error THEN extract_call.primary
                        ELSE IF fallback_improved(extract_call.primary, outcome[1])
                        THEN outcome[1]
                        ELSE extract_call.primary]
    /\ UNCHANGED cascade
    /\ UNCHANGED <<store_vars, merge_vars, pipeline_vars, audit_vars, sanitizer_vars, region_vars, grouping_vars, step_vars, tracker_vars, cli_vars, upload_vars, corrections_vars, service_vars>>

CascadeIdle ==
    /\ cascade = [cascade_enabled |-> FALSE, has_fallback |-> FALSE,
                  cascade_threshold |-> 0]
    /\ token_records = <<>>
    /\ extract_call = IdleExtraction(0)


(***************************************************************************)
(* The command line entry point (scripts/batch_agent_extract.py; run_batch *)
(* of scripts/batch_extract.py has the same shape).  A process whose       *)
(* main() returns exits with code 0; one that an exception leaves exits    *)
(* with code 1.                                                            *)
(***************************************************************************)
MaxPdfs == 2        \* PDFs below the input directory

\* Per PDF of the directory: whether its extraction will succeed.
CliEnvs ==
    [input_dir_exists : BOOLEAN, api_key : BOOLEAN, dry_run : BOOLEAN,
     no_merge : BOOLEAN, export_ok : BOOLEAN,
     extractable : UNION { [1..n -> BOOLEAN] : n \in 0..MaxPdfs }]

\* discover_pdfs: [] when the input directory does not exist.
discover_pdfs(env) == IF ~env.input_dir_exists THEN <<>> ELSE env.extractable

\* process_batch / run_full_pipeline: one partial per path, none raised;
\* without the API key every LLM call fails and every partial is failed.
\* A partial is known by whether its extraction_result is non-empty.
process_pdfs(env, pdfs) == [k \in 1..Len(pdfs) |-> env.api_key /\ pdfs[k]]

IdleCli == [pc |-> "start", pdfs |-> <<>>, partials |-> <<>>, exit_code |-> None]

\* main, up to "if not pdfs: return" and "if args.dry_run: return".
Discover ==
    /\ cli.pc = "start"
    /\ \E pdfs \in {discover_pdfs(cli_env)} :
          cli' = IF pdfs = <<>> \/ cli_env.dry_run
                 THEN [cli EXCEPT !.pc = "exited", !.pdfs = pdfs, !.exit_code = Some(0)]
                 ELSE [cli EXCEPT !.pc = "discovered", !.pdfs = pdfs]
    /\ UNCHANGED cli_env
    /\ UNCHANGED <<store_vars, merge_vars, pipeline_vars, audit_vars, sanitizer_vars, cascade_vars, region_vars, grouping_vars, step_vars, tracker_vars, upload_vars, corrections_vars, service_vars>>

\* main: the orchestrator is built (no client, no key is touched) and the
\* pipeline runs.
RunPipeline ==
    /\ cli.pc = "discovered"
    /\ cli' = [cli EXCEPT !.pc = "processed",
                          !.partials = process_pdfs(cli_env, cli.pdfs)]
    /\ UNCHANGED cli_env
    /\ UNCHANGED <<store_vars, merge_vars, pipeline_vars, audit_vars, sanitizer_vars, cascade_vars, region_vars, grouping_vars, step_vars, tracker_vars, upload_vars, corrections_vars, service_vars>>

\* main: the reports are printed, export_results writes the files (an OSError
\* leaves main) and main returns.
Export ==
    /\ cli.pc = "processed"
    /\ cli' = [cli EXCEPT !.pc = "exited",
                          !.exit_code = Some(IF cli_env.export_ok THEN 0 ELSE 1)]
    /\ UNCHANGED cli_env
    /\ UNCHANGED <<store_vars, merge_vars, pipeline_vars, audit_vars, sanitizer_vars, cascade_vars, region_vars, grouping_vars, step_vars, tracker_vars, upload_vars, corrections_vars, service_vars>>

CliIdle ==
    /\ cli_env = [input_dir_exists |-> TRUE, api_key |-> TRUE, dry_run |-> FALSE,
                  no_merge |-> FALSE, export_ok |-> TRUE, extractable |-> <<>>]
    /\ cli = IdleCli


(***************************************************************************)
(* Groups whose partials disagree on single-Fact fields, for the conflict  *)
(* warnings of _merge_section.  A Fact value is a str or a float.          *)
(***************************************************************************)
ResultE ==
    Dump(PyStr("a"), MendelFact(PyStr("c")), MendelFact(PyFloat("0.0")),
         PyList(<<>>), PyList(<<>>))

ResultF ==
    Dump(PyStr("a"), MendelFact(PyStr("c")), MendelFact(PyFloat("23.0")),
         PyList(<<>>), PyList(<<>>))

ConflictKinds ==
    { Partial("TDS", ResultE, {"packaging_options", "certifications"}, {}),
      Partial("TDS", ResultA, {"cas_numbers"}, {<<"w1">>}),
      Partial("CoA", ResultF, {"packaging_options", "certifications"}, {}),
      Partial("SDS", ResultD, {"product_line", "packaging_options", "certifications"}, {}),
      Partial("SDS", ResultC, {"density"}, {<<"w2">>}),
      Partial("SDS", ResultE, {"packaging_options", "certifications"}, {}),
      FailedExtraction("TDS") }

ConflictGroups == UNION { [1..n -> ConflictKinds] : n \in 1..MaxPartials }

(***************************************************************************)
(* AuditorAgent.apply_corrections (agents/auditor.py).  An extraction      *)
(* result is a dict of sections; a section is a dict of fields or not a    *)
(* dict; a field is a Fact (a dict with "value"), a plain string, or       *)
(* something else (a list, None).  Keys, field names and warnings are text.*)
(***************************************************************************)
MaxCorrections == 2     \* corrections of one AuditResult

\* The value of a field.  kind is "fact", "str" or "other"; a Fact has its
\* value, confidence, unit and source_section, a string is its value.
FieldValue(kind, value, confidence, unit, source_section) ==
    [kind |-> kind, value |-> value, confidence |-> confidence, unit |-> unit,
     source_section |-> source_section]

Fact(value, confidence, unit, source_section) ==
    FieldValue("fact", value, confidence, unit, source_section)

PlainString(value) == FieldValue("str", value, "", "", "")

OtherValue == FieldValue("other", "", "", "", "")

\* A section: is_dict tells whether it is a dict, fields is the dict.
DictSection(fields) == [is_dict |-> TRUE, fields |-> fields]

NotADict == [is_dict |-> FALSE, fields |-> <<>>]

EmptyFields == [f \in {} |-> OtherValue]

\* s.split(".", 1)
str_split_once(s) ==
    IF \A k \in 1..Len(s) : s[k] # "." THEN <<s>>
    ELSE LET k == CHOOSE i \in 1..Len(s) :
                      s[i] = "." /\ \A j \in 1..(i - 1) : s[j] # "."
         IN  <<SubSeq(s, 1, k - 1), SubSeq(s, k + 1, Len(s))>>

SECTION_ORDER ==
    <<<<"i","d","e","n","t","i","t","y">>, <<"c","h","e","m","i","c","a","l">>, <<"p","h","y","s","i","c","a","l">>, <<"a","p","p","l","i","c","a","t","i","o","n">>, <<"s","a","f","e","t","y">>,
      <<"c","o","m","p","l","i","a","n","c","e">>, <<"d","o","c","u","m","e","n","t","_","i","n","f","o">>>>

\* extraction.get(section_key, {})
get_section(extraction, section_key) ==
    IF section_key \in DOMAIN extraction
    THEN extraction[section_key] ELSE DictSection(EmptyFields)

\* _find_section_for_field: the first section, in SECTION_ORDER, that is a
\* dict with the field; None if there is none.
find_section_for_field(extraction, field_key) ==
    LET has == { k \in 1..Len(SECTION_ORDER) :
                    LET section == get_section(extraction, SECTION_ORDER[k])
                    IN  section.is_dict /\ field_key \in DOMAIN section.fields }
    IN  IF has = {} THEN None
        ELSE Some(SECTION_ORDER[CHOOSE k \in has : \A j \in has : k <= j])

\* The warning for a correction without a corrected_value, and the one that
\* counts the applied corrections.
FlagWarning(field_name) == [kind |-> "may be incorrect", field_name |-> field_name, applied |-> 0]

AppliedWarning(applied) == [kind |-> "corrections applied", field_name |-> <<>>, applied |-> applied]

OtherWarning == [kind |-> "other", field_name |-> <<>>, applied |-> 0]

\* The (section_key, field_key) a correction's field_name stands for, None
\* if a bare field is in no section.
correction_target(extraction, field_name) ==
    LET parts == str_split_once(field_name)
    IN  IF Len(parts) = 2 THEN Some(<<parts[1], parts[2]>>)
        ELSE LET section_key == find_section_for_field(extraction, parts[1])
             IN  IF section_key = None \/ section_key[1] = <<>> THEN None
                 ELSE Some(<<section_key[1], parts[1]>>)

\* current_val["value"] = new_val; current_val["confidence"] = "medium", or
\* section[field_key] = new_val for a string; any other value is left.
corrected_field(current_val, new_val) ==
    CASE current_val.kind = "fact" ->
            [current_val EXCEPT !.value = new_val, !.confidence = "medium"]
      [] current_val.kind = "str" -> [current_val EXCEPT !.value = new_val]
      [] OTHER -> current_val

\* Mutant: the warning is added before the path is looked up.
apply_correction_FlagUnresolved(st, correction) ==
    LET target == correction_target(st.extraction, correction.field_name)
        section == IF target = None THEN NotADict
                   ELSE get_section(st.extraction, target[1][1])
    IN  IF correction.corrected_value = None
        THEN [st EXCEPT !.warnings = Append(st.warnings, FlagWarning(correction.field_name))]
        ELSE IF target = None THEN st
        ELSE IF ~section.is_dict THEN st
        ELSE IF target[1][2] \notin DOMAIN section.fields THEN st
        ELSE LET current_val == section.fields[target[1][2]]
             IN  [st EXCEPT
                    !.extraction[target[1][1]].fields[target[1][2]] =
                        corrected_field(current_val, correction.corrected_value[1]),
                    !.applied = IF current_val.kind \in {"fact", "str"}
                                THEN st.applied + 1 ELSE st.applied]

\* One turn of the loop over audit_result.corrections; st is the extraction,
\* partial.warnings and applied so far.
apply_correction(st, correction) ==
    LET target == correction_target(st.extraction, correction.field_name)
        section == IF target = None THEN NotADict
                   ELSE get_section(st.extraction, target[1][1])
    IN  IF target = None THEN st
        ELSE IF ~section.is_dict THEN st
        ELSE IF target[1][2] \notin DOMAIN section.fields THEN st
        ELSE IF correction.corrected_value = None
        THEN [st EXCEPT !.warnings = Append(st.warnings, FlagWarning(correction.field_name))]
        ELSE LET current_val == section.fields[target[1][2]]
             IN  [st EXCEPT
                    !.extraction[target[1][1]].fields[target[1][2]] =
                        corrected_field(current_val, correction.corrected_value[1]),
                    !.applied = IF current_val.kind \in {"fact", "str"}
                                THEN st.applied + 1 ELSE st.applied]

RECURSIVE corrections_loop(_, _)
\* for correction in audit_result.corrections
corrections_loop(st, corrections) ==
    IF corrections = <<>> THEN st
    ELSE corrections_loop(apply_correction(st, Head(corrections)), Tail(corrections))

\* AuditorAgent.apply_corrections: the partial it returns, which is the
\* partial it was given, changed in place.
AuditorAgent_apply_corrections(partial, corrections) ==
    IF corrections = <<>> THEN partial
    ELSE LET st == corrections_loop(
                       [extraction |-> partial.extraction_result,
                        warnings |-> partial.warnings, applied |-> 0],
                       corrections)
         IN  [extraction_result |-> st.extraction,
              warnings |-> IF st.applied > 0
                           THEN Append(st.warnings, AppliedWarning(st.applied))
                           ELSE st.warnings]

\* The extraction results apply_corrections is tried on: identity with two
\* Facts and a list, document_info with a string and a missing value; the
\* same with identity not a dict; the empty result.
IdentityFields ==
    [f \in {<<"p","r","o","d","u","c","t","_","n","a","m","e">>, <<"c","a","s","_","n","u","m","b","e","r","s">>, <<"s","y","n","o","n","y","m","s">>} |->
        CASE f = <<"p","r","o","d","u","c","t","_","n","a","m","e">> -> Fact("P", "high", "", "header")
          [] f = <<"c","a","s","_","n","u","m","b","e","r","s">> -> Fact("50-00-0", "low", "CAS", "section 3")
          [] f = <<"s","y","n","o","n","y","m","s">> -> OtherValue]

DocumentInfoFields ==
    [f \in {<<"l","a","n","g","u","a","g","e">>, <<"b","r","a","n","d">>} |->
        CASE f = <<"l","a","n","g","u","a","g","e">> -> PlainString("en")
          [] f = <<"b","r","a","n","d">> -> OtherValue]

CorrectedResults ==
    { [s \in {<<"i","d","e","n","t","i","t","y">>, <<"d","o","c","u","m","e","n","t","_","i","n","f","o">>} |->
          IF s = <<"i","d","e","n","t","i","t","y">> THEN DictSection(IdentityFields)
          ELSE DictSection(DocumentInfoFields)],
      [s \in {<<"i","d","e","n","t","i","t","y">>, <<"d","o","c","u","m","e","n","t","_","i","n","f","o">>} |->
          IF s = <<"i","d","e","n","t","i","t","y">> THEN NotADict
          ELSE DictSection(DocumentInfoFields)],
      [s \in {} |-> NotADict] }

CorrectedPartials ==
    [extraction_result : CorrectedResults, warnings : {<<>>, <<OtherWarning>>}]

\* field_name of a correction: section.field, a bare field, a field of
\* another section, a path into a Fact, and names of no field.
FieldNames ==
    { <<"i","d","e","n","t","i","t","y",".","c","a","s","_","n","u","m","b","e","r","s">>, <<"c","a","s","_","n","u","m","b","e","r","s">>, <<"d","o","c","u","m","e","n","t","_","i","n","f","o",".","l","a","n","g","u","a","g","e">>,
      <<"l","a","n","g","u","a","g","e">>, <<"s","y","n","o","n","y","m","s">>, <<"b","r","a","n","d">>, <<"p","h","y","s","i","c","a","l",".","c","a","s","_","n","u","m","b","e","r","s">>,
      <<"i","d","e","n","t","i","t","y",".","c","a","s","_","n","u","m","b","e","r","s",".","v","a","l","u","e">>, <<"d","e","n","s","i","t","y">> }

AuditCorrections ==
    [field_name : FieldNames, corrected_value : {None, Some("X"), Some("")}]

CorrectionLists == UNION { [1..n -> AuditCorrections] : n \in 0..MaxCorrections }

IdleCorrecting(partial, corrections) ==
    [given |-> partial, partial |-> partial, corrections |-> corrections]

\* auditor.apply_corrections(partial, audit_result)
ApplyCorrections ==
    /\ corrected = None
    /\ \E returned \in {AuditorAgent_apply_corrections(correcting.partial,
                                                        correcting.corrections)} :
          /\ correcting' = [correcting EXCEPT !.partial = returned]
          /\ corrected' = Some(returned)
    /\ UNCHANGED <<store_vars, merge_vars, pipeline_vars, audit_vars, sanitizer_vars, cascade_vars, region_vars, grouping_vars, step_vars, tracker_vars, cli_vars, upload_vars, service_vars>>

CorrectionsIdle ==
    /\ correcting = IdleCorrecting([extraction_result |-> [s \in {} |-> NotADict],
                                    warnings |-> <<>>], <<>>)
    /\ corrected = None

(***************************************************************************)
(* OrchestratorAgent.group_by_product (agents/orchestrator.py).  A path is *)
(* the sequence of its components, as in pdf_paths.                        *)
(***************************************************************************)
MaxGrouped == 3     \* partials handed to group_by_product

\* Path(source_file).parent; the parent of a bare file name is ".".
path_parent(path) ==
    IF Len(path) <= 1 THEN <<".">> ELSE SubSeq(path, 1, Len(path) - 1)

\* Path(folder).name; Path(".").name is "".
path_name(folder) == IF folder = <<".">> THEN "" ELSE folder[Len(folder)]

\* The part of model_dump() of an ExtractionResult that group_by_product reads.
GroupedResult(brand, product_name) ==
    [document_info |-> [brand |-> brand], identity |-> [product_name |-> product_name]]

ProductGroup(product_name, product_folder, brand, partial_extractions) ==
    [product_name |-> product_name, product_folder |-> product_folder,
     brand |-> brand, partial_extractions |-> partial_extractions]

\* groups: the dict from folder to its partials, as the sequence of its keys
\* in insertion order and the function on them.
RECURSIVE group_folders(_, _, _)
group_folders(partials, k, folders) ==
    IF k > Len(partials) THEN folders
    ELSE LET product_folder == path_parent(partials[k].source_file)
         IN  IF \E j \in 1..Len(folders) : folders[j] = product_folder
             THEN group_folders(partials, k + 1, folders)
             ELSE group_folders(partials, k + 1, Append(folders, product_folder))

group_partials_of(partials, folder) ==
    SelectSeq(partials, LAMBDA p : path_parent(p.source_file) = folder)

RECURSIVE name_and_brand(_, _, _)
\* The loop over group_partials from its k-th partial on: it stops at the
\* first partial that has a brand.
name_and_brand(group_partials, k, product_name) ==
    IF k > Len(group_partials) THEN [product_name |-> product_name, brand |-> ""]
    ELSE LET p == group_partials[k]
         IN  IF IsEmptyDict(p.extraction_result)
             THEN name_and_brand(group_partials, k + 1, product_name)
             ELSE IF p.extraction_result.document_info.brand # ""
             THEN [product_name |-> product_name,
                   brand |-> p.extraction_result.document_info.brand]
             ELSE IF p.extraction_result.identity.product_name # ""
             THEN name_and_brand(group_partials, k + 1,
                                 p.extraction_result.identity.product_name)
             ELSE name_and_brand(group_partials, k + 1, product_name)

group_by_product(partials) ==
    LET folders == group_folders(partials, 1, <<>>)
    IN  [j \in 1..Len(folders) |->
            LET group_partials == group_partials_of(partials, folders[j])
                found == name_and_brand(group_partials, 1, path_name(folders[j]))
            IN  ProductGroup(found.product_name, folders[j], found.brand,
                             group_partials)]

\* The partials the model hands to group_by_product: two product folders, a
\* bare file name, results with and without a brand and a product name, and
\* failed partials.
SourceFiles ==
    { <<"ELASTOSIL", "RT-601", "tds.pdf">>, <<"ELASTOSIL", "RT-601", "sds.pdf">>,
      <<"ELASTOSIL", "RT-602", "tds.pdf">>, <<"tds.pdf">> }

GroupedResults ==
    {EmptyDict}
    \cup { GroupedResult(brand, product_name) :
             brand \in {"", "ELASTOSIL"},
             product_name \in {"", "ELASTOSIL RT 601", "RT 601 A"} }

GroupedPartials ==
    [source_file : SourceFiles, extraction_result : GroupedResults]

PartialLists == UNION { [1..n -> GroupedPartials] : n \in 0..MaxGrouped }

GroupByProduct ==
    /\ product_groups = None
    /\ product_groups' = Some(group_by_product(grouped))
    /\ UNCHANGED grouped
    /\ UNCHANGED <<store_vars, merge_vars, pipeline_vars, audit_vars, sanitizer_vars, cascade_vars, region_vars, step_vars, tracker_vars, cli_vars, upload_vars, corrections_vars, service_vars>>

GroupingIdle ==
    /\ grouped = <<>>
    /\ product_groups = None


(***************************************************************************)
(* resolve_region called on its own (versioning.py).                       *)
(***************************************************************************)
MaxInventories == 2   \* entries of safety.global_inventories

\* document_info.document_type is one of these literals (schemas.py).
DocumentTypes == {"TDS", "SDS", "RPI", "CoA", "Brochure", "unknown"}

\* document_info.language is any str; its default is "en".
Languages ==
    {<<>>, <<"e","n">>, <<"d","e">>, <<"f","r">>, <<"e","s">>, <<"i","t">>, <<"p","t">>, <<"n","l">>, <<"p","l">>, <<"j","a">>, <<"z","h">>, <<"k","o">>,
     <<"E","N">>, <<"D","e">>, <<"e","n","-","U","S">>, <<"z","h","-","C","N">>, <<"e">>, <<"r","u">>, <<" ","e","n">>}

InventoryKinds ==
    {<<"T","S","C","A">>, <<"R","E","A","C","H">>, <<"t","s","c","a"," ","l","i","s","t","e","d">>, <<"K","-","R","E","A","C","H">>, <<"D","S","L">>, <<"T","S">>, <<"C","A">>}

InventoryLists == UNION { [1..n -> InventoryKinds] : n \in 0..MaxInventories }

RegionInputs ==
    [product_name : {"P"}, document_type : DocumentTypes,
     language : Languages, global_inventories : InventoryLists]

ResolveRegion ==
    /\ region_ret = None
    /\ region_ret' = Some(resolve_region(region_arg))
    /\ UNCHANGED region_arg
    /\ UNCHANGED <<store_vars, merge_vars, pipeline_vars, audit_vars, sanitizer_vars, cascade_vars, grouping_vars, step_vars, tracker_vars, cli_vars, upload_vars, corrections_vars, service_vars>>

RegionIdle ==
    /\ region_arg = ResultQ_TDS
    /\ region_ret = None


(***************************************************************************)
(* The Sanitizer (agents/sanitizer.py).  A JSON value is a record of its   *)
(* kind, its text (a str; a number or a bool as Python prints it) and its  *)
(* vals (the items of a list, the key -> value function of a dict).        *)
(***************************************************************************)
MaxNesting == 6     \* dicts around the sections of a raw extraction

JNull == [kind |-> "null", text |-> <<"N","o","n","e">>, vals |-> <<>>]
JStr(s) == [kind |-> "str", text |-> s, vals |-> <<>>]
JNum(s) == [kind |-> "num", text |-> s, vals |-> <<>>]
JBool(b) == [kind |-> "bool", text |-> IF b THEN <<"T","r","u","e">> ELSE <<"F","a","l","s","e">>, vals |-> <<>>]
JList(items) == [kind |-> "list", text |-> <<>>, vals |-> items]
JDict(f) == [kind |-> "dict", text |-> <<>>, vals |-> f]

\* The keys of the item dicts that have neither "value" nor "name", in the
\* order the dicts hold them, and as text.
ItemKeys == <<"id", "pct">>
ItemKeyText == [k \in {"id", "pct"} |-> IF k = "id" THEN <<"i","d">> ELSE <<"p","c","t">>]

HasKey(obj, key) == obj.kind = "dict" /\ key \in DOMAIN obj.vals

\* str(obj); the text of a list or a dict is not spelled out.
py_text(obj) ==
    CASE obj.kind = "list" -> <<"[",".",".",".","]">>
      [] obj.kind = "dict" -> <<"{",".",".",".","}">>
      [] OTHER -> obj.text

\* bool(obj)
py_truthy(obj) ==
    CASE obj.kind = "null" -> FALSE
      [] obj.kind = "str" -> obj.text # <<>>
      [] obj.kind = "num" -> obj.text # <<"0">>
      [] obj.kind = "bool" -> obj.text = <<"T","r","u","e">>
      [] obj.kind = "list" -> obj.vals # <<>>
      [] obj.kind = "dict" -> DOMAIN obj.vals # {}

IsJNull(obj) == obj.kind = "null"

DOC_TYPE_MAP ==
    (<<"t","e","c","h","n","i","c","a","l"," ","d","a","t","a"," ","s","h","e","e","t">> :> <<"T","D","S">>)
    @@ (<<"s","a","f","e","t","y"," ","d","a","t","a"," ","s","h","e","e","t">> :> <<"S","D","S">>)
    @@ (<<"r","a","w"," ","p","r","o","d","u","c","t"," ","i","n","f","o","r","m","a","t","i","o","n">> :> <<"R","P","I">>)
    @@ (<<"r","e","g","u","l","a","t","o","r","y"," ","p","r","o","d","u","c","t"," ","i","n","f","o","r","m","a","t","i","o","n">> :> <<"R","P","I">>)
    @@ (<<"c","e","r","t","i","f","i","c","a","t","e"," ","o","f"," ","a","n","a","l","y","s","i","s">> :> <<"C","o","A">>)
    @@ (<<"b","r","o","c","h","u","r","e">> :> <<"B","r","o","c","h","u","r","e">>)

\* unwrap_value
unwrap_value(obj) ==
    IF HasKey(obj, "value")
    THEN IF IsJNull(obj.vals["value"]) THEN JNull ELSE JStr(py_text(obj.vals["value"]))
    ELSE IF obj.kind = "str" THEN obj
    ELSE IF IsJNull(obj) THEN JNull ELSE JStr(py_text(obj))

\* key == "document_type" and isinstance(val, str)
fix_document_type(val) ==
    LET name == str_strip(str_lower(val.text))
    IN  IF name \in DOMAIN DOC_TYPE_MAP THEN JStr(DOC_TYPE_MAP[name]) ELSE val

\* key in PLAIN_STRING_FIELDS
fix_plain_string(val) ==
    IF HasKey(val, "value") THEN unwrap_value(val)
    ELSE IF val.kind = "list" THEN
        LET vs == [i \in 1..Len(val.vals) |->
                      IF val.vals[i].kind = "dict" THEN unwrap_value(val.vals[i])
                      ELSE IF py_truthy(val.vals[i]) THEN JStr(py_text(val.vals[i]))
                      ELSE JNull]
            kept == SelectSeq(vs, py_truthy)
            parts == [i \in 1..Len(kept) |-> kept[i].text]
        IN  IF parts # <<>> THEN JStr(str_join(<<";"," ">>, parts)) ELSE JNull
    ELSE val

\* Mutant: a list is always replaced by its first element.
fix_single_fact_First(val) ==
    IF val.kind = "list" /\ Len(val.vals) > 0 THEN val.vals[1] ELSE val

\* key in SINGLE_MENDELFACT_FIELDS
fix_single_fact(val) ==
    IF val.kind = "list" /\ Len(val.vals) > 0
    THEN IF val.vals[1].kind = "dict" THEN val.vals[1] ELSE val
    ELSE val

\* "; ".join(f"{k}: {v}" for k, v in item.items() if v is not None)
item_text(item) ==
    LET keys == SelectSeq(ItemKeys,
                    LAMBDA k : k \in DOMAIN item.vals /\ ~IsJNull(item.vals[k]))
    IN  str_join(<<";"," ">>, [i \in 1..Len(keys) |->
                          ItemKeyText[keys[i]] \o <<":"," ">> \o py_text(item.vals[keys[i]])])

\* One item of a list of strings: the string to append, or null to skip it.
clean_item(item) ==
    IF IsJNull(item) THEN JNull
    ELSE IF item.kind = "dict" THEN
        LET v == IF HasKey(item, "value")
                 THEN IF IsJNull(item.vals["value"]) THEN JNull
                      ELSE JStr(py_text(item.vals["value"]))
                 ELSE IF HasKey(item, "name") THEN JStr(py_text(item.vals["name"]))
                 ELSE JStr(item_text(item))
        IN  IF py_truthy(v) THEN v ELSE JNull
    ELSE IF item.kind = "str" THEN item
    ELSE JStr(py_text(item))

\* key in PLAIN_STRING_LIST_FIELDS
fix_string_list(val) ==
    IF IsJNull(val) THEN JList(<<>>)
    ELSE IF val.kind = "list"
    THEN JList(SelectSeq([i \in 1..Len(val.vals) |-> clean_item(val.vals[i])],
                         LAMBDA v : ~IsJNull(v)))
    ELSE val

CasNotFound ==
    JDict([value |-> JNull,
           source_section |-> JStr(<<"n","o","t"," ","f","o","u","n","d">>),
           raw_string |-> JStr(<<"C","A","S"," ","n","u","m","b","e","r"," ","n","o","t"," ","f","o","u","n","d"," ","i","n"," ","d","o","c","u","m","e","n","t">>),
           confidence |-> JStr(<<"l","o","w">>),
           is_specification |-> JBool(FALSE)])

\* first_item.get(key, default) if isinstance(first_item, dict) else default
first_item_get(val, key, default) ==
    IF val.vals # <<>> /\ HasKey(val.vals[1], key) THEN val.vals[1].vals[key]
    ELSE JStr(default)

\* key == "cas_numbers"
fix_cas_numbers(val) ==
    IF IsJNull(val) THEN CasNotFound
    ELSE IF val.kind = "list" THEN
        LET JoinsIn(item) ==
                \/ HasKey(item, "value") /\ py_truthy(item.vals["value"])
                \/ item.kind = "str"
            kept == SelectSeq(val.vals, JoinsIn)
            cas_values == [i \in 1..Len(kept) |->
                              IF kept[i].kind = "str" THEN kept[i].text
                              ELSE py_text(kept[i].vals["value"])]
        IN  IF cas_values # <<>>
            THEN JDict([value |-> JStr(str_join(<<","," ">>, cas_values)),
                        source_section |-> first_item_get(val, "source_section", <<"S","e","c","t","i","o","n"," ","3">>),
                        raw_string |-> JStr(str_join(<<","," ">>, cas_values)),
                        confidence |-> first_item_get(val, "confidence", <<"h","i","g","h">>),
                        is_specification |-> JBool(TRUE),
                        test_method |-> JNull])
            ELSE CasNotFound
    ELSE val

RECURSIVE fix_dict(_, _)
\* The loop body of fix_dict: the value stored under key.
fix_value(key, val, depth) ==
    IF key = "document_type" /\ val.kind = "str" THEN fix_document_type(val)
    ELSE IF key \in PLAIN_STRING_FIELDS THEN fix_plain_string(val)
    ELSE IF key \in SINGLE_MENDELFACT_FIELDS THEN fix_single_fact(val)
    ELSE IF key \in PLAIN_STRING_LIST_FIELDS THEN fix_string_list(val)
    ELSE IF key = "cas_numbers" THEN fix_cas_numbers(val)
    ELSE IF val.kind = "dict" THEN fix_dict(val, depth + 1)
    ELSE IF val.kind = "list"
    THEN JList([i \in 1..Len(val.vals) |->
                   IF val.vals[i].kind = "dict"
                   THEN fix_dict(val.vals[i], depth + 1) ELSE val.vals[i]])
    ELSE val

\* fix_dict
fix_dict(d, depth) ==
    IF depth > 5 THEN d
    ELSE JDict([key \in DOMAIN d.vals |-> fix_value(key, d.vals[key], depth)])

\* sanitize_extraction_json
sanitize_extraction_json(data) == fix_dict(data, 0)

(***************************************************************************)
(* The raw extractions the Sanitizer is tried on.                          *)
(***************************************************************************)
RawFact(value) ==
    JDict([value |-> value, source_section |-> JStr(<<"s","1">>), confidence |-> JStr(<<"m","e","d","i","u","m">>)])

RawDocumentTypes ==
    { JStr(<<"T","D","S">>), JStr(<<" ","T","e","c","h","n","i","c","a","l"," ","D","a","t","a"," ","S","h","e","e","t">>), JStr(<<"b","r","o","c","h","u","r","e">>), JNull }

RawProductNames ==
    { JStr(<<"X">>),
      RawFact(JStr(<<"X">>)),
      RawFact(JNull),
      JList(<<RawFact(JStr(<<"X">>)), RawFact(JNum(<<"7">>))>>),
      JList(<<JStr(<<"X">>), JNull, JNum(<<"0">>)>>) }

RawDensities ==
    { RawFact(JStr(<<"1">>)),
      JList(<<RawFact(JStr(<<"1">>)), RawFact(JStr(<<"2">>))>>),
      JList(<<>>),
      JList(<<JList(<<RawFact(JStr(<<"1">>))>>)>>),
      JNull }

RawCertifications ==
    { JNull,
      JList(<<JStr(<<"a">>), JStr(<<>>)>>),
      JList(<<RawFact(JStr(<<"a">>)), JNull, RawFact(JNull)>>),
      JList(<<JDict([name |-> JStr(<<"n">>)]), JNum(<<"7">>)>>),
      JList(<<JDict([id |-> JStr(<<"a">>), pct |-> JNum(<<"7">>)]), JDict([id |-> JNull])>>),
      JStr(<<"a">>) }

RawCasNumbers ==
    { JNull,
      RawFact(JStr(<<"5","0","-","0","0","-","0">>)),
      JList(<<RawFact(JStr(<<"5","0","-","0","0","-","0">>)), RawFact(JStr(<<"6","4","-","1","7","-","5">>))>>),
      JList(<<JStr(<<"5","0","-","0","0","-","0">>), RawFact(JNull)>>),
      JList(<<RawFact(JNull)>>) }

RawSections ==
    { JDict([document_info |-> JDict([document_type |-> document_type]),
             identity |-> JDict([product_name |-> product_name]),
             chemical |-> JDict([cas_numbers |-> cas_numbers]),
             physical |-> JDict([density |-> density]),
             safety |-> JDict([certifications |-> certifications])]) :
        document_type \in RawDocumentTypes, product_name \in RawProductNames,
        cas_numbers \in RawCasNumbers, density \in RawDensities,
        certifications \in RawCertifications }

RECURSIVE Nested(_, _)
\* obj inside n dicts, every second one inside a list.
Nested(n, obj) ==
    IF n = 0 THEN obj
    ELSE IF n % 2 = 0 THEN JDict([pages |-> JList(<<JNull, Nested(n - 1, obj)>>)])
    ELSE JDict([data |-> Nested(n - 1, obj)])

RawExtractions == { Nested(n, obj) : n \in 0..MaxNesting, obj \in RawSections }

NoJson == <<>>

\* sanitized = sanitize_extraction_json(raw_data)
Sanitize ==
    /\ sanitized = NoJson
    /\ sanitized' = <<sanitize_extraction_json(raw_data)>>
    /\ UNCHANGED <<raw_data, resanitized>>
    /\ UNCHANGED <<store_vars, merge_vars, pipeline_vars, audit_vars, cascade_vars, region_vars, grouping_vars, step_vars, tracker_vars, cli_vars, upload_vars, corrections_vars, service_vars>>

\* The Sanitizer applied to its own output.
Resanitize ==
    /\ sanitized # NoJson
    /\ resanitized = NoJson
    /\ resanitized' = <<sanitize_extraction_json(sanitized[1])>>
    /\ UNCHANGED <<raw_data, sanitized>>
    /\ UNCHANGED <<store_vars, merge_vars, pipeline_vars, audit_vars, cascade_vars, region_vars, grouping_vars, step_vars, tracker_vars, cli_vars, upload_vars, corrections_vars, service_vars>>

SanitizerIdle ==
    /\ raw_data = JDict(EmptyDict)
    /\ sanitized = NoJson
    /\ resanitized = NoJson


(***************************************************************************)
(* The cascade of ExtractorService.extract (extractor.py).  The service    *)
(* reads the same settings as BatchExtractorService; _run_extraction       *)
(* returns an ExtractionResult, known by the length of its                 *)
(* missing_attributes, or raises.                                          *)
(***************************************************************************)
\* What _run_extraction delivers: None when it raises.
RunExtractionOutcomes == {None} \cup { <<n>> : n \in 0..MaxMissing }

\* The result extract returns: whose it is, its missing_attributes, and
\* whether the "Cascade fallback ... failed" warning was appended to it.
ServiceResult(provider, missing, fallback_warning) ==
    [provider |-> provider, missing |-> missing,
     fallback_warning |-> fallback_warning]

IdleService ==
    [pc |-> "idle", primary |-> None, fallback |-> None, fallback_calls |-> 0,
     returned |-> None]

\* Step 1: the primary extraction, which may raise out of extract; return
\* its result if no fallback is needed.
ServicePrimary(outcome) ==
    /\ service_call.pc \in {"idle", "done", "raised"}
    /\ service_call' =
          IF outcome = None THEN [IdleService EXCEPT !.pc = "raised"]
          ELSE IF cascade_needed(cascade, [missing |-> outcome[1]])
          THEN [IdleService EXCEPT !.pc = "cascade", !.primary = outcome]
          ELSE [IdleService EXCEPT
                   !.pc = "done", !.primary = outcome,
                   !.returned = Some(ServiceResult("primary", outcome[1], FALSE))]
    /\ UNCHANGED <<store_vars, merge_vars, pipeline_vars, audit_vars, sanitizer_vars, cascade_vars, region_vars, grouping_vars, step_vars, tracker_vars, cli_vars, upload_vars, corrections_vars>>

\* Step 2: the fallback extraction; the result with fewer missing
\* attributes, or, in except Exception, the primary result with a warning.
ServiceFallback(outcome) ==
    /\ service_call.pc = "cascade"
    /\ service_call' =
          [service_call EXCEPT
             !.pc = "done",
             !.fallback = outcome,
             !.fallback_calls = service_call.fallback_calls + 1,
             !.returned =
                IF outcome = None
                THEN Some(ServiceResult("primary", service_call.primary[1], TRUE))
                ELSE IF outcome[1] < service_call.primary[1]
                THEN Some(ServiceResult("fallback", outcome[1], FALSE))
                ELSE Some(ServiceResult("primary", service_call.primary[1], FALSE))]
    /\ UNCHANGED <<store_vars, merge_vars, pipeline_vars, audit_vars, sanitizer_vars, cascade_vars, region_vars, grouping_vars, step_vars, tracker_vars, cli_vars, upload_vars, corrections_vars>>

ServiceIdle == service_call = IdleService

(***************************************************************************)
(* One LLM step of the agent pipeline: DocTypeExtractor.extract            *)
(* (agents/extractors.py) calling BaseAgent.call_llm (agents/base.py).     *)
(***************************************************************************)
MaxRetries == 2     \* largest settings.extraction_max_retries

\* What the provider answers to a request: a response, or one of the errors
\* its client raises.
ProviderErrors == {"network", "5xx", "timeout", "quota"}

\* The answers the provider has ready for the first, second, ... request of
\* the step.
ProviderReplies == [1..(MaxRetries + 1) -> {"ok"} \cup ProviderErrors]

LlmEnvs ==
    [provider : {"google", "anthropic", "openai"}, max_retries : 0..MaxRetries,
     replies : ProviderReplies, doc_type : {"TDS", "SDS"}]

\* call_llm: one request to the client of the provider, none to any other
\* provider; max_retries is not read.  The result is the number of requests
\* made and the error raised ("none" if it returned).
call_llm(env) ==
    IF env.provider \in {"google", "anthropic"}
    THEN [requests |-> 1,
          error |-> IF env.replies[1] = "ok" THEN "none" ELSE env.replies[1]]
    ELSE [requests |-> 0, error |-> "ValueError"]

IdleStep == [pc |-> "idle", requests |-> 0, error |-> "none", partial |-> None]

\* extract, up to the return of call_llm or the exception it raised.
CallLlm ==
    /\ llm_step.pc = "idle"
    /\ \E result \in {call_llm(llm_env)} :
          llm_step' = [llm_step EXCEPT !.pc = "called",
                                       !.requests = result.requests,
                                       !.error = result.error]
    /\ UNCHANGED llm_env
    /\ UNCHANGED <<store_vars, merge_vars, pipeline_vars, audit_vars, sanitizer_vars, cascade_vars, region_vars, grouping_vars, tracker_vars, cli_vars, upload_vars, corrections_vars, service_vars>>

\* extract, from there: the validated result, or "except Exception" and the
\* failed partial with the warning "Extraction error: ...".
ExtractReturn ==
    /\ llm_step.pc = "called"
    /\ llm_step' = [llm_step EXCEPT
                      !.pc = "returned",
                      !.partial = Some(IF llm_step.error = "none"
                                       THEN Extracted(llm_env.doc_type)
                                       ELSE FailedExtraction(llm_env.doc_type))]
    /\ UNCHANGED llm_env
    /\ UNCHANGED <<store_vars, merge_vars, pipeline_vars, audit_vars, sanitizer_vars, cascade_vars, region_vars, grouping_vars, tracker_vars, cli_vars, upload_vars, corrections_vars, service_vars>>

StepIdle ==
    /\ llm_env = [provider |-> "google", max_retries |-> 0,
                  replies |-> [k \in 1..(MaxRetries + 1) |-> "ok"], doc_type |-> "TDS"]
    /\ llm_step = IdleStep


(***************************************************************************)
(* The Cost Tracker (cost_tracker.py).  Prices are USD per 1M tokens       *)
(* times 10^4, so costs are whole numbers of 10^-10 USD.                   *)
(***************************************************************************)
MaxRecords == 2     \* record() calls on one CostTracker

\* (input, output, cache_write, cache_read) of _PRICING, in the order of the
\* dict, for the models the calls name.
PricedModels == <<<<"g","e","m","i","n","i","-","2",".","5","-","f","l","a","s","h">>, <<"c","l","a","u","d","e","-","s","o","n","n","e","t","-","4","@","2","0","2","5","0","5","1","4">>>>

PRICING ==
    (<<"g","e","m","i","n","i","-","2",".","5","-","f","l","a","s","h">> :> <<1500, 6000, 375, 375>>)
    @@ (<<"c","l","a","u","d","e","-","s","o","n","n","e","t","-","4","@","2","0","2","5","0","5","1","4">> :> <<30000, 150000, 37500, 3000>>)

FALLBACK_PRICING == <<30000, 150000, 37500, 3000>>

\* _get_pricing: the model's entry, else the first entry whose key is part of
\* the model's name or contains it, else the fallback.
get_pricing(model) ==
    IF model \in DOMAIN PRICING THEN PRICING[model]
    ELSE LET near == { k \in 1..Len(PricedModels) :
                          \/ str_contains(model, PricedModels[k])
                          \/ str_contains(PricedModels[k], model) }
         IN  IF near # {}
             THEN PRICING[PricedModels[CHOOSE k \in near : \A j \in near : k <= j]]
             ELSE FALLBACK_PRICING

\* TokenRecord.compute_cost
compute_cost(rec) ==
    LET price == get_pricing(rec.model)
    IN  [rec EXCEPT
           !.total_tokens = rec.input_tokens + rec.output_tokens
                            + rec.cache_creation_tokens + rec.cache_read_tokens,
           !.cost_usd = rec.input_tokens * price[1] + rec.output_tokens * price[2]
                        + rec.cache_creation_tokens * price[3]
                        + rec.cache_read_tokens * price[4]]

\* CostTracker.record: the record appended to self.records.
record(call) ==
    compute_cost([provider |-> call.provider, model |-> call.model,
                  input_tokens |-> call.input_tokens,
                  output_tokens |-> call.output_tokens,
                  cache_creation_tokens |-> call.cache_creation_tokens,
                  cache_read_tokens |-> call.cache_read_tokens,
                  total_tokens |-> 0, cost_usd |-> 0,
                  cascade_triggered |-> call.cascade_triggered])

\* key = f"{rec.provider}/{rec.model}"
stats_key(rec) == rec.provider \o <<"/">> \o rec.model

ProviderStats(provider, model) ==
    [provider |-> provider, model |-> model, call_count |-> 0,
     total_input_tokens |-> 0, total_output_tokens |-> 0,
     total_cache_creation_tokens |-> 0, total_cache_read_tokens |-> 0,
     total_tokens |-> 0, total_cost_usd |-> 0]

RECURSIVE stats_loop(_, _, _)
\* _stats_by_provider: the loop over self.records from the k-th record on.
stats_loop(records, k, stats) ==
    IF k > Len(records) THEN stats
    ELSE LET rec == records[k]
             key == stats_key(rec)
             s == IF key \in DOMAIN stats THEN stats[key]
                  ELSE ProviderStats(rec.provider, rec.model)
             after ==
                [s EXCEPT
                   !.call_count = @ + 1,
                   !.total_input_tokens = @ + rec.input_tokens,
                   !.total_output_tokens = @ + rec.output_tokens,
                   !.total_cache_creation_tokens = @ + rec.cache_creation_tokens,
                   !.total_cache_read_tokens = @ + rec.cache_read_tokens,
                   !.total_tokens = @ + rec.total_tokens,
                   !.total_cost_usd = @ + rec.cost_usd]
         IN  stats_loop(records, k + 1,
                        [x \in DOMAIN stats \cup {key} |->
                            IF x = key THEN after ELSE stats[x]])

stats_by_provider(records) == stats_loop(records, 1, <<>>)

RECURSIVE sum_of(_, _)
\* sum(r.<field> for r in self.records)
sum_of(records, field) ==
    IF records = <<>> THEN 0
    ELSE records[1][field] + sum_of(Tail(records), field)

\* CostTracker.summary, without the elapsed time and the rounded averages.
summary(records) ==
    LET stats == stats_by_provider(records)
    IN  [total_extractions |-> Len(records),
         cascade_triggered_count |->
            Cardinality({ k \in 1..Len(records) : records[k].cascade_triggered }),
         total_tokens |-> sum_of(records, "total_tokens"),
         total_cost_usd |-> sum_of(records, "cost_usd"),
         providers |->
            [key \in DOMAIN stats |->
                [calls |-> stats[key].call_count,
                 input_tokens |-> stats[key].total_input_tokens,
                 output_tokens |-> stats[key].total_output_tokens,
                 cache_creation_tokens |-> stats[key].total_cache_creation_tokens,
                 cache_read_tokens |-> stats[key].total_cache_read_tokens,
                 total_tokens |-> stats[key].total_tokens,
                 cost_usd |-> stats[key].total_cost_usd]]]

\* The record() calls the model makes: provider and model are any str, the
\* token counts are not negative.
TokenCounts == { <<0, 0, 0, 0>>, <<5000, 800, 0, 0>>, <<5000, 800, 4000, 3500>> }

RecordCalls ==
    { [provider |-> p, model |-> m, input_tokens |-> c[1], output_tokens |-> c[2],
       cache_creation_tokens |-> c[3], cache_read_tokens |-> c[4],
       cascade_triggered |-> b] :
        p \in {<<"g","o","o","g","l","e">>, <<"a","n","t","h","r","o","p","i","c">>, <<"g","o","o","g","l","e","/","m","o","d","e","l","s">>},
        m \in {<<"g","e","m","i","n","i","-","2",".","5","-","f","l","a","s","h">>, <<"m","o","d","e","l","s","/","g","e","m","i","n","i","-","2",".","5","-","f","l","a","s","h">>,
               <<"c","l","a","u","d","e","-","s","o","n","n","e","t","-","4","@","2","0","2","5","0","5","1","4">>},
        c \in TokenCounts, b \in {FALSE} }

Record(call) ==
    /\ Len(tracker_calls) < MaxRecords
    /\ tracker_calls' = Append(tracker_calls, call)
    /\ tracker_records' = Append(tracker_records, record(call))
    /\ summary_ret' = None
    /\ UNCHANGED <<store_vars, merge_vars, pipeline_vars, audit_vars, sanitizer_vars, cascade_vars, region_vars, grouping_vars, step_vars, cli_vars, upload_vars, corrections_vars, service_vars>>

Summary ==
    /\ summary_ret = None
    /\ summary_ret' = Some(summary(tracker_records))
    /\ UNCHANGED <<tracker_calls, tracker_records>>
    /\ UNCHANGED <<store_vars, merge_vars, pipeline_vars, audit_vars, sanitizer_vars, cascade_vars, region_vars, grouping_vars, step_vars, cli_vars, upload_vars, corrections_vars, service_vars>>

TrackerIdle ==
    /\ tracker_calls = <<>>
    /\ tracker_records = <<>>
    /\ summary_ret = None


(***************************************************************************)
(* The /extract-batch route (router.py, extract_pdf_batch).                *)
(***************************************************************************)
MaxFiles == 2       \* files of one /extract-batch request

MAX_BATCH_FILES == 20

\* s.endswith(suffix)
str_endswith(s, suffix) ==
    /\ Len(s) >= Len(suffix)
    /\ SubSeq(s, Len(s) - Len(suffix) + 1, Len(s)) = suffix

\* An uploaded file: its name (empty if it has none), whether it is larger
\* than extraction_max_file_size_mb, and what process_batch will return for
\* it: a partial whose extraction_result is a valid ExtractionResult, is {},
\* or is a non-empty dict that ExtractionResult rejects (an applied audit
\* correction put a value outside the Literal into document_type).
UploadKinds ==
    [filename : {<<"a",".","p","d","f">>, <<"B",".","P","D","F">>, <<"n","o","t","e","s",".","t","x","t">>, <<>>}, oversized : BOOLEAN,
     outcome : {"valid", "empty", "invalid"}]

Uploads == UNION { [1..n -> UploadKinds] : n \in 0..MaxFiles }

\* not upload.filename or not upload.filename.lower().endswith(".pdf")
not_a_pdf(file) ==
    file.filename = <<>> \/ ~str_endswith(str_lower(file.filename), <<".","p","d","f">>)

\* The first file the loop over files rejects, 0 if it rejects none.
first_rejected(files) ==
    IF \E k \in 1..Len(files) : not_a_pdf(files[k]) \/ files[k].oversized
    THEN CHOOSE k \in 1..Len(files) :
            /\ not_a_pdf(files[k]) \/ files[k].oversized
            /\ \A j \in 1..(k - 1) : ~not_a_pdf(files[j]) /\ ~files[j].oversized
    ELSE 0

BatchExtractionResultSchema(filename, success, has_result, has_error) ==
    [filename |-> filename, success |-> success, has_result |-> has_result,
     has_error |-> has_error]

\* The loop over enumerate(partials): the results up to the k-th partial, or
\* None if model_validate raised on one of them.
RECURSIVE batch_results_of(_, _, _)
batch_results_of(file_map, k, results) ==
    IF k > Len(file_map) THEN Some(results)
    ELSE IF file_map[k].outcome = "invalid" THEN None
    ELSE batch_results_of(file_map, k + 1,
            Append(results,
                   IF file_map[k].outcome = "valid"
                   THEN BatchExtractionResultSchema(file_map[k].filename, TRUE, TRUE, FALSE)
                   ELSE BatchExtractionResultSchema(file_map[k].filename, FALSE, FALSE, TRUE)))

ErrorBatchResponse(status) ==
    [status |-> status, success |-> FALSE, results |-> <<>>,
     successful_count |-> 0, failed_count |-> 0]

\* BatchExtractionResponse(success=successful > 0, results=results, ...)
BatchExtractionResponse(results) ==
    LET successful == Cardinality({ k \in 1..Len(results) : results[k].success })
        failed == Cardinality({ k \in 1..Len(results) : ~results[k].success })
    IN  [status |-> 200, success |-> successful > 0, results |-> results,
         successful_count |-> successful, failed_count |-> failed]

IdleBatchCall == [pc |-> "start", file_map |-> <<>>, response |-> None]

\* The validation: the number of files, then per file its name and its size;
\* the accepted files are written to the temp dir and noted in file_map.
AcceptUploads ==
    /\ batch_call.pc = "start"
    /\ batch_call' =
          IF Len(upload) > MAX_BATCH_FILES \/ Len(upload) = 0
          THEN [batch_call EXCEPT !.pc = "responded",
                                  !.response = Some(ErrorBatchResponse(400))]
          ELSE IF first_rejected(upload) # 0
          THEN [batch_call EXCEPT
                  !.pc = "responded",
                  !.file_map = SubSeq(upload, 1, first_rejected(upload) - 1),
                  !.response = Some(ErrorBatchResponse(
                      IF not_a_pdf(upload[first_rejected(upload)]) THEN 400 ELSE 413))]
          ELSE [batch_call EXCEPT !.pc = "accepted", !.file_map = upload]
    /\ UNCHANGED upload
    /\ UNCHANGED <<store_vars, merge_vars, pipeline_vars, audit_vars, sanitizer_vars, cascade_vars, region_vars, grouping_vars, step_vars, tracker_vars, cli_vars, corrections_vars, service_vars>>

\* process_batch, then one result per partial; a ValidationError of
\* model_validate leaves the handler (500).
BuildResponse ==
    /\ batch_call.pc = "accepted"
    /\ \E results \in {batch_results_of(batch_call.file_map, 1, <<>>)} :
          batch_call' =
             [batch_call EXCEPT
                !.pc = "responded",
                !.response = Some(IF results = None THEN ErrorBatchResponse(500)
                                  ELSE BatchExtractionResponse(results[1]))]
    /\ UNCHANGED upload
    /\ UNCHANGED <<store_vars, merge_vars, pipeline_vars, audit_vars, sanitizer_vars, cascade_vars, region_vars, grouping_vars, step_vars, tracker_vars, cli_vars, corrections_vars, service_vars>>

UploadIdle ==
    /\ upload = <<>>
    /\ batch_call = IdleBatchCall

(***************************************************************************)
(* Specifications.                                                         *)
(***************************************************************************)
StoreInit ==
    /\ rows = {}
    /\ runs = {}
    /\ tx = [t \in Sessions |-> IdleTx]
    /\ next_row_id = 1
    /\ next_run_id = 1
    /\ req_count = 0
    /\ last_response = NoResponse

\* An empty store, nothing to merge, no batch.
Init ==
    /\ StoreInit
    /\ group = <<>>
    /\ MergeIdle
    /\ pdf_paths = <<>>
    /\ PipelineIdle
    /\ AuditIdle
    /\ SanitizerIdle
    /\ CascadeIdle
    /\ RegionIdle
    /\ GroupingIdle
    /\ StepIdle
    /\ TrackerIdle
    /\ CliIdle
    /\ UploadIdle
    /\ CorrectionsIdle
    /\ ServiceIdle

\* A ProductGroup with one to MaxPartials partial extractions.
MergeInit ==
    /\ StoreInit
    /\ group \in Groups
    /\ MergeIdle
    /\ pdf_paths = <<>>
    /\ PipelineIdle
    /\ AuditIdle
    /\ SanitizerIdle
    /\ CascadeIdle
    /\ RegionIdle
    /\ GroupingIdle
    /\ StepIdle
    /\ TrackerIdle
    /\ CliIdle
    /\ UploadIdle
    /\ CorrectionsIdle
    /\ ServiceIdle

\* A process_batch call with zero to MaxPaths paths.
PipelineInit ==
    /\ StoreInit
    /\ group = <<>>
    /\ MergeIdle
    /\ pdf_paths \in Batches
    /\ PipelineIdle
    /\ AuditIdle
    /\ SanitizerIdle
    /\ CascadeIdle
    /\ RegionIdle
    /\ GroupingIdle
    /\ StepIdle
    /\ TrackerIdle
    /\ CliIdle
    /\ UploadIdle
    /\ CorrectionsIdle
    /\ ServiceIdle

\* A PartialExtraction for should_audit.
AuditInit ==
    /\ StoreInit
    /\ group = <<>>
    /\ MergeIdle
    /\ pdf_paths = <<>>
    /\ PipelineIdle
    /\ audited \in AuditedPartials
    /\ decision = None
    /\ SanitizerIdle
    /\ CascadeIdle
    /\ RegionIdle
    /\ GroupingIdle
    /\ StepIdle
    /\ TrackerIdle
    /\ CliIdle
    /\ UploadIdle
    /\ CorrectionsIdle
    /\ ServiceIdle

\* A raw extraction for the Sanitizer.
SanitizerInit ==
    /\ StoreInit
    /\ group = <<>>
    /\ MergeIdle
    /\ pdf_paths = <<>>
    /\ PipelineIdle
    /\ AuditIdle
    /\ raw_data \in RawExtractions
    /\ sanitized = NoJson
    /\ resanitized = NoJson
    /\ CascadeIdle
    /\ RegionIdle
    /\ GroupingIdle
    /\ StepIdle
    /\ TrackerIdle
    /\ CliIdle
    /\ UploadIdle
    /\ CorrectionsIdle
    /\ ServiceIdle

\* A BatchExtractorService with its settings and an empty Cost Tracker.
CascadeInit ==
    /\ StoreInit
    /\ group = <<>>
    /\ MergeIdle
    /\ pdf_paths = <<>>
    /\ PipelineIdle
    /\ AuditIdle
    /\ SanitizerIdle
    /\ cascade \in CascadeSettings
    /\ token_records = <<>>
    /\ extract_call = IdleExtraction(0)
    /\ RegionIdle
    /\ GroupingIdle
    /\ StepIdle
    /\ TrackerIdle
    /\ CliIdle
    /\ UploadIdle
    /\ CorrectionsIdle
    /\ ServiceIdle

\* An ExtractionResult for resolve_region.
RegionInit ==
    /\ StoreInit
    /\ group = <<>>
    /\ MergeIdle
    /\ pdf_paths = <<>>
    /\ PipelineIdle
    /\ AuditIdle
    /\ SanitizerIdle
    /\ CascadeIdle
    /\ region_arg \in RegionInputs
    /\ region_ret = None
    /\ GroupingIdle
    /\ StepIdle
    /\ TrackerIdle
    /\ CliIdle
    /\ UploadIdle
    /\ CorrectionsIdle
    /\ ServiceIdle

\* A list of partials for group_by_product.
GroupingInit ==
    /\ StoreInit
    /\ group = <<>>
    /\ MergeIdle
    /\ pdf_paths = <<>>
    /\ PipelineIdle
    /\ AuditIdle
    /\ SanitizerIdle
    /\ CascadeIdle
    /\ RegionIdle
    /\ grouped \in PartialLists
    /\ product_groups = None
    /\ StepIdle
    /\ TrackerIdle
    /\ CliIdle
    /\ UploadIdle
    /\ CorrectionsIdle
    /\ ServiceIdle

\* One extractor step: a provider, the settings, a document.
StepInit ==
    /\ StoreInit
    /\ group = <<>>
    /\ MergeIdle
    /\ pdf_paths = <<>>
    /\ PipelineIdle
    /\ AuditIdle
    /\ SanitizerIdle
    /\ CascadeIdle
    /\ RegionIdle
    /\ GroupingIdle
    /\ llm_env \in LlmEnvs
    /\ llm_step = IdleStep
    /\ TrackerIdle
    /\ CliIdle
    /\ UploadIdle
    /\ CorrectionsIdle
    /\ ServiceIdle

\* A new CostTracker.
TrackerInit ==
    /\ StoreInit
    /\ group = <<>>
    /\ MergeIdle
    /\ pdf_paths = <<>>
    /\ PipelineIdle
    /\ AuditIdle
    /\ SanitizerIdle
    /\ CascadeIdle
    /\ RegionIdle
    /\ GroupingIdle
    /\ StepIdle
    /\ TrackerIdle
    /\ CliIdle
    /\ UploadIdle
    /\ CorrectionsIdle
    /\ ServiceIdle

\* One invocation of the command line tool.
CliInit ==
    /\ StoreInit
    /\ group = <<>>
    /\ MergeIdle
    /\ pdf_paths = <<>>
    /\ PipelineIdle
    /\ AuditIdle
    /\ SanitizerIdle
    /\ CascadeIdle
    /\ RegionIdle
    /\ GroupingIdle
    /\ StepIdle
    /\ TrackerIdle
    /\ cli_env \in CliEnvs
    /\ cli = IdleCli
    /\ UploadIdle
    /\ CorrectionsIdle
    /\ ServiceIdle

\* One /extract-batch request.
UploadInit ==
    /\ StoreInit
    /\ group = <<>>
    /\ MergeIdle
    /\ pdf_paths = <<>>
    /\ PipelineIdle
    /\ AuditIdle
    /\ SanitizerIdle
    /\ CascadeIdle
    /\ RegionIdle
    /\ GroupingIdle
    /\ StepIdle
    /\ TrackerIdle
    /\ CliIdle
    /\ upload \in Uploads
    /\ batch_call = IdleBatchCall
    /\ CorrectionsIdle
    /\ ServiceIdle

CorrectionsInit ==
    /\ StoreInit
    /\ group = <<>>
    /\ MergeIdle
    /\ pdf_paths = <<>>
    /\ PipelineIdle
    /\ AuditIdle
    /\ SanitizerIdle
    /\ CascadeIdle
    /\ RegionIdle
    /\ GroupingIdle
    /\ StepIdle
    /\ TrackerIdle
    /\ CliIdle
    /\ UploadIdle
    /\ \E partial \in CorrectedPartials, corrections \in CorrectionLists :
          correcting = IdleCorrecting(partial, corrections)
    /\ corrected = None
    /\ ServiceIdle

ConflictInit ==
    /\ StoreInit
    /\ group \in ConflictGroups
    /\ MergeIdle
    /\ pdf_paths = <<>>
    /\ PipelineIdle
    /\ AuditIdle
    /\ SanitizerIdle
    /\ CascadeIdle
    /\ RegionIdle
    /\ GroupingIdle
    /\ StepIdle
    /\ TrackerIdle
    /\ CliIdle
    /\ UploadIdle
    /\ CorrectionsIdle
    /\ ServiceIdle

FallbackInit ==
    /\ StoreInit
    /\ group = <<>>
    /\ MergeIdle
    /\ pdf_paths = <<>>
    /\ PipelineIdle
    /\ AuditIdle
    /\ SanitizerIdle
    /\ cascade \in CascadeSettings
    /\ token_records = <<>>
    /\ extract_call = IdleExtraction(0)
    /\ RegionIdle
    /\ GroupingIdle
    /\ StepIdle
    /\ TrackerIdle
    /\ CliIdle
    /\ UploadIdle
    /\ CorrectionsIdle
    /\ ServiceIdle

\* /confirm requests handled one after another.
SeqNext ==
    \/ \E results \in Requests : ConfirmRejected(results)
    \/ \E results \in Requests : Confirm(results)

\* /confirm requests handled concurrently, each on its own session.
ConcNext ==
    \/ \E results \in Requests : ConfirmRejected(results)
    \/ \E t \in Sessions :
        \/ \E results \in Requests : ConfirmBegin(t, results)
        \/ ReadMax(t)
        \/ SelectLatest(t)
        \/ Flip(t)
        \/ Insert(t)
        \/ Commit(t)

\* The same, with statements that fail in the database.
FailingNext ==
    \/ ConcNext
    \/ \E t \in Sessions : DbError(t)

\* One merge of the group, then merges of its reorderings.
MergeNext ==
    \/ Merge
    \/ \E q \in Reorderings(Len(group)) : MergePermuted(q)

\* process_batch, one step of process_single_pdf at a time.
PipelineNext ==
    \/ \E ok \in BOOLEAN : ParsePdf(ok)
    \/ \E prompt_ok \in BOOLEAN : \E doc_type \in ClassifiedDocTypes :
          Classify(prompt_ok, doc_type)
    \/ \E prompt_ok \in BOOLEAN : \E extract_ok \in BOOLEAN :
          Extract(prompt_ok, extract_ok)
    \/ \E low_conf_count \in {0, 3} : \E hallucination_flags \in {0, 1} :
          \E prompt_ok \in BOOLEAN : \E reply \in AuditReplies :
             Audit(low_conf_count, hallucination_flags, prompt_ok, reply)
    \/ Collect

AuditNext == ShouldAudit

CascadeNext ==
    \/ \E primary \in ExtractorReturns("google") : PrimaryExtract(primary)
    \/ \E outcome \in FallbackOutcomes : FallbackExtract(outcome)

RegionNext == ResolveRegion

GroupingNext == GroupByProduct

StepNext ==
    \/ CallLlm
    \/ ExtractReturn

TrackerNext ==
    \/ \E call \in RecordCalls : Record(call)
    \/ Summary

CliNext ==
    \/ Discover
    \/ RunPipeline
    \/ Export

UploadNext ==
    \/ AcceptUploads
    \/ BuildResponse

CorrectionsNext == ApplyCorrections

ConflictNext == Merge

ServiceNext ==
    \/ \E outcome \in RunExtractionOutcomes : ServicePrimary(outcome)
    \/ \E outcome \in RunExtractionOutcomes : ServiceFallback(outcome)

FallbackNext == CascadeNext \/ ServiceNext

SanitizerNext ==
    \/ Sanitize
    \/ Resanitize

SpecSeq == Init /\ [][SeqNext]_vars

SpecConc == Init /\ [][ConcNext]_vars

SpecFailing == Init /\ [][FailingNext]_vars

SpecMerge == MergeInit /\ [][MergeNext]_vars

SpecPipeline == PipelineInit /\ [][PipelineNext]_vars

SpecAudit == AuditInit /\ [][AuditNext]_vars

SpecSanitizer == SanitizerInit /\ [][SanitizerNext]_vars

SpecCascade == CascadeInit /\ [][CascadeNext]_vars

SpecRegion == RegionInit /\ [][RegionNext]_vars

SpecGrouping == GroupingInit /\ [][GroupingNext]_vars

SpecStep == StepInit /\ [][StepNext]_vars

SpecTracker == TrackerInit /\ [][TrackerNext]_vars

SpecCli == CliInit /\ [][CliNext]_vars

SpecUpload == UploadInit /\ [][UploadNext]_vars

SpecCorrections == CorrectionsInit /\ [][CorrectionsNext]_vars

SpecConflict == ConflictInit /\ [][ConflictNext]_vars

SpecFallback == FallbackInit /\ [][FallbackNext]_vars
(***************************************************************************)
(* Properties of the store.                                                *)
(***************************************************************************)
RowKey(r) == <<r.product_name, r.region>>

RowsOfKey(rs, key) == { r \in rs : RowKey(r) = key }

ExactlyOneLatest(rs) ==
    \A r \in rs : Cardinality({ q \in RowsOfKey(rs, RowKey(r)) : q.is_latest }) = 1

\* C1: after any sequence of /confirm requests handled one after another,
\* every (product_name, region) that has a row has exactly one row with
\* is_latest = true; all its other rows have is_latest = false.
C1_ExactlyOneLatest == ExactlyOneLatest(rows)

\* A key that was persisted twice: its first row has been obsoleted.
C1_Witness ==
    \E r \in rows : \E q \in rows :
        r.id # q.id /\ RowKey(r) = RowKey(q) /\ ~r.is_latest /\ q.is_latest

\* C2: two /confirm transactions that run concurrently never both create a
\* row with the same version of the same (product_name, region), and once
\* both have committed exactly one row of the key has is_latest = true.
C2_ConcurrentConfirmSafe ==
    /\ \A r \in rows : \A q \in rows :
          (RowKey(r) = RowKey(q) /\ r.version = q.version) => r.id = q.id
    /\ (\A t \in Sessions : tx[t].pc = "idle") => ExactlyOneLatest(rows)

\* C3: a key persisted in n successive runs has rows with exactly the
\* versions 1..n, one row per version, and its row with is_latest = true is
\* the row with the highest version.
C3_VersionsContiguous ==
    \A r \in rows :
        LET same == RowsOfKey(rows, RowKey(r))
            n == Cardinality(same)
        IN  /\ { q.version : q \in same } = 1..n
            /\ Cardinality({ q.run_id : q \in same }) = n
            /\ r.is_latest <=> r.version = n

\* A key persisted in two runs: versions 1 and 2, version 2 the latest.
C3_Witness ==
    \E r \in rows : \E q \in rows :
        /\ RowKey(r) = RowKey(q) /\ r.run_id # q.run_id
        /\ r.version = 1 /\ q.version = 2 /\ q.is_latest

FirstIndexOf(keys, key) ==
    CHOOSE k \in 1..Len(keys) :
        keys[k] = key /\ \A j \in 1..(k - 1) : keys[j] # key

Populated(v) == v \notin {PyNone, PyStr(""), PyList(<<>>), MendelFact(PyNone)}

\* The partials of the group that populated the field.
Populating(partials, key) ==
    { k \in 1..Len(partials) :
         /\ ~IsEmptyDict(partials[k].extraction_result)
         /\ Populated(partials[k].extraction_result[key]) }

ItemSet(v) == { Items(v)[k] : k \in 1..Len(Items(v)) }

\* C8: in a merged record every non-union field (plain string, plain-string
\* list, single Fact, cas_numbers) has the value of the highest-priority
\* partial that populated it; it is unpopulated only if no partial populated
\* it.
C8_HighestPriorityWins ==
    merge_out.status = "ok" =>
        \A key \in ResultKeys \ UNION_MERGE_FIELDS :
            LET pop == Populating(group, key)
                top == { k \in pop : \A j \in pop :
                            priority(group[k].doc_type) >= priority(group[j].doc_type) }
            IN  IF pop = {}
                THEN ~Populated(merge_out.result[key])
                ELSE \E k \in top :
                        merge_out.result[key] = group[k].extraction_result[key]

\* C9: in a record merged from two or more partials every union field holds
\* exactly the items of that field over the contributing partials, and no
\* item twice.
C9_UnionFieldsAreSetUnions ==
    (merge_out.status = "ok" /\ Len(group) >= 2) =>
        \A key \in ResultKeys \cap UNION_MERGE_FIELDS :
            LET items == Items(merge_out.result[key])
            IN  /\ ItemSet(merge_out.result[key]) =
                      UNION { ItemSet(group[k].extraction_result[key]) :
                                 k \in { j \in 1..Len(group) :
                                            ~IsEmptyDict(group[j].extraction_result) } }
                /\ \A a \in 1..Len(items) : \A b \in 1..Len(items) :
                      items[a] = items[b] => a = b

\* What merge returned (or that it raised), without the caller's partials.
Returned(out) ==
    <<out.status, out.result, out.missing_attributes, out.extraction_warnings>>

\* The reordering q keeps partials of equal priority in their relative order.
KeepsTieOrder(partials, q) ==
    \A a \in 1..Len(partials) : \A b \in 1..Len(partials) :
        (a < b /\ priority(partials[q[a]].doc_type) = priority(partials[q[b]].doc_type))
            => q[a] < q[b]

\* C10 as stated: merging any reordering of a group's partials gives the same
\* result, also when two partials of the same priority differ in a field.
C10_AnyOrderSameResult ==
    perm_out.out.status # "none" => Returned(perm_out.out) = Returned(merge_out)

\* C10, amended: merging a reordering of a group's partials gives the same
\* result whenever the reordering keeps partials of equal doc_type priority in
\* their relative order (in particular when all priorities differ).
C10_TieOrderKeptSameResult ==
    (perm_out.out.status # "none" /\ KeepsTieOrder(group, perm_out.perm))
        => Returned(perm_out.out) = Returned(merge_out)

\* Three partials, two of them of one priority and with different results,
\* merged in another order that keeps those two in their relative order.
C10_Witness ==
    /\ perm_out.out.status = "ok"
    /\ Len(group) = 3
    /\ perm_out.perm # <<1, 2, 3>>
    /\ KeepsTieOrder(group, perm_out.perm)
    /\ \E a \in 1..3 : \E b \in 1..3 : \E c \in 1..3 :
          /\ a # b
          /\ group[a].doc_type = group[b].doc_type
          /\ group[a].extraction_result # group[b].extraction_result
          /\ priority(group[c].doc_type) > priority(group[a].doc_type)
          /\ ~IsEmptyDict(group[a].extraction_result)
          /\ ~IsEmptyDict(group[b].extraction_result)
          /\ ~IsEmptyDict(group[c].extraction_result)

\* The fields that every partial of the group lists in missing_fields.
MissingInAll(partials) ==
    { f \in UNION { partials[k].missing_fields : k \in 1..Len(partials) } :
         \A k \in 1..Len(partials) : f \in partials[k].missing_fields }

\* C11: the record merged from two or more partials has as its
\* missing_attributes exactly the intersection of missing_fields over all the
\* partials of the group, failed partials included.
C11_MissingIsIntersection ==
    (merge_out.status = "ok" /\ Len(group) >= 2) =>
        merge_out.missing_attributes = MissingInAll(group)

\* A merged group with a failed partial in which some field is missing
\* everywhere, and no partial's missing_fields is the intersection.
C11_Witness ==
    /\ merge_out.status = "ok"
    /\ Len(group) >= 2
    /\ \E k \in 1..Len(group) : IsEmptyDict(group[k].extraction_result)
    /\ merge_out.missing_attributes # {}
    /\ \A k \in 1..Len(group) : merge_out.missing_attributes # group[k].missing_fields

(***************************************************************************)
(* Properties of the Orchestrator.                                         *)
(***************************************************************************)
\* A failed PartialExtraction: no extraction result, and a warning that says
\* what went wrong.
IsFailedPartial(p) == IsEmptyDict(p.extraction_result) /\ p.warnings # {}

C7_ProcessSingleNeverRaises ==
    /\ pipe.pc # "raised"
    /\ (pipe.pc = "returned" /\ pipe.failed = "parse") => IsFailedPartial(pipe.partial)

\* C12: every PartialExtraction that process_batch returns, for a PDF that
\* was extracted as for one that failed at any stage, has missing_fields and
\* extracted_fields disjoint and together all the attribute names, and one
\* with an empty extraction_result has every attribute in missing_fields.
C12_FieldsPartitionAttributes ==
    \A i \in 1..Len(batch_results) :
        LET p == batch_results[i]
        IN  /\ p.missing_fields \cap p.extracted_fields = {}
            /\ p.missing_fields \cup p.extracted_fields = ResultKeys
            /\ IsEmptyDict(p.extraction_result) => p.missing_fields = ResultKeys

\* C14: when the audit call fails (provider error, invalid JSON, invalid
\* audit result) process_single_pdf still returns the partial: the
\* audit_result it carries has pass_audit = true, no corrections and a
\* flagged issue telling the error, and everything else in the partial is as
\* the extractor produced it.
C14_AuditErrorIsSwallowed ==
    [][(pipe.pc = "extracted" /\ pipe'.audit_error # "none") =>
          /\ pipe'.pc = "returned"
          /\ Len(pipe'.partial.audit_result) = 1
          /\ pipe'.partial.audit_result[1].pass_audit
          /\ pipe'.partial.audit_result[1].corrections = "none"
          /\ pipe'.partial.audit_result[1].flagged_issues # {}
          /\ pipe'.partial =
                [pipe.partial EXCEPT !.audit_result = pipe'.partial.audit_result]
          /\ ~IsEmptyDict(pipe'.partial.extraction_result)]_vars

\* process_single_pdf returned an extracted partial whose audit call failed
\* with a provider error.
C14_Witness ==
    /\ pipe.pc = "returned"
    /\ pipe.audit_error = "provider error"
    /\ pipe.failed = "none"
    /\ ~IsEmptyDict(pipe.partial.extraction_result)
    /\ pipe.partial.audit_result # None

(***************************************************************************)
(* Properties of the audit trigger.                                        *)
(***************************************************************************)
\* (1) at least three Fact fields of the result have confidence low.
ManyLowConfidence(p) ==
    Cardinality({ f \in AuditedFactFields \cap DOMAIN p.extraction_result :
                     \E fact \in { p.extraction_result[f][k] :
                                      k \in 1..Len(p.extraction_result[f]) } :
                         fact.confidence = "low" }) >= 3

\* (2) a critical field of the doc type is among the missing fields.
MissingCritical(p) ==
    \E f \in p.missing_fields :
        \/ p.doc_type = "SDS" /\ f \in {"cas_numbers", "ghs_statements", "un_number", "flash_point"}
        \/ p.doc_type = "RPI" /\ f \in {"cas_numbers", "global_inventories", "certifications"}
        \/ p.doc_type = "TDS" /\ f \in {"density", "grade", "physical_form"}
        \/ p.doc_type = "CoA" /\ f \in {"cas_numbers", "purity"}

\* (3) at least three warnings.
ManyWarnings(p) == Cardinality(p.warnings) >= 3

\* A text that is not blank and does not have the format.
FailsCas(s) == str_strip(s) # <<>> /\ ~re_match_cas(str_strip(s))
FailsUn(s) == str_strip(s) # <<>> /\ ~re_match_un(str_upper(str_strip(s)))
FailsGhs(s) == str_strip(s) # <<>> /\ ~re_match_ghs(str_strip(s))

\* (4) a CAS number, the UN number or one of the first n GHS statements fails
\* its format pattern.
HeuristicFires(p, n) ==
    /\ ~IsEmptyDict(p.extraction_result)
    /\ \/ \E fact \in { p.extraction_result.cas_numbers[k] :
                           k \in 1..Len(p.extraction_result.cas_numbers) } :
             \E i \in 1..Len(str_split(fact.value, ",")) :
                FailsCas(str_split(fact.value, ",")[i])
       \/ \E fact \in { p.extraction_result.un_number[k] :
                           k \in 1..Len(p.extraction_result.un_number) } :
             FailsUn(fact.value)
       \/ \E k \in 1..Len(p.extraction_result.ghs_statements) :
             k <= n /\ FailsGhs(p.extraction_result.ghs_statements[k])

BothSucceeded ==
    /\ extract_call.pc = "done"
    /\ extract_call.fallback # None
    /\ ~extract_call.fallback[1].error

\* C16: when the cascade ran both extractors and both succeeded, extract
\* returns the result with fewer missing attributes: the fallback's only if
\* it has strictly fewer than the primary's, the primary's on a tie.
C16_CascadeEmitsFewerMissing ==
    BothSucceeded =>
        /\ extract_call.returned \in {extract_call.primary, extract_call.fallback[1]}
        /\ extract_call.returned.missing <= extract_call.primary.missing
        /\ extract_call.returned.missing <= extract_call.fallback[1].missing
        /\ extract_call.returned = extract_call.fallback[1]
              <=> extract_call.fallback[1].missing < extract_call.primary.missing

\* Both extractors succeeded with the same number of missing attributes.
C16_Witness ==
    /\ BothSucceeded
    /\ extract_call.fallback[1].missing = extract_call.primary.missing
    /\ extract_call.returned.provider = "google"

\* The TokenRecords of the extract call that ended last, in the order they
\* were recorded.
CallRecords ==
    SelectSeq(token_records, LAMBDA rec : rec.file_name = extract_call.calls)

\* The cascade triggered in the extract call that is over, and the fallback
\* extractor returned.
CascadeRan == extract_call.pc = "done" /\ extract_call.fallback # None

Regions == {"GLOBAL", "EU", "US", "JP", "CN", "KR"}

\* The first two characters of a language, lower-cased.
FirstTwoLower(language) ==
    [k \in 1..(IF Len(language) < 2 THEN Len(language) ELSE 2) |-> lower_char(language[k])]

\* The language table as specified.
TableRegion(lang) ==
    CASE lang \in {<<"e","n">>, <<"d","e">>, <<"f","r">>, <<"e","s">>, <<"i","t">>, <<"p","t">>, <<"n","l">>, <<"p","l">>} -> "EU"
      [] lang = <<"j","a">> -> "JP"
      [] lang = <<"z","h">> -> "CN"
      [] lang = <<"k","o">> -> "KR"
      [] OTHER -> "GLOBAL"

\* Some entry of the inventories mentions the word, in any case.
Mentions(inventories, word) ==
    \E k \in 1..Len(inventories) : str_contains(str_upper(inventories[k]), word)

\* The region the table gives a result whose language is taken to be language.
SpecifiedRegion(result, language) ==
    IF result.document_type # "SDS" THEN "GLOBAL"
    ELSE IF Mentions(result.global_inventories, <<"T","S","C","A">>)
            /\ ~Mentions(result.global_inventories, <<"R","E","A","C","H">>) THEN "US"
    ELSE TableRegion(FirstTwoLower(language))

\* C18 as stated: resolve_region returns one of the six regions and equals the
\* table for every input: GLOBAL for a document that is no SDS; for an SDS US
\* if the inventories mention TSCA and not REACH, else the region of the first
\* two lower-cased characters of its language, GLOBAL for anything not in the
\* table.
C18_RegionEqualsTable ==
    region_ret # None =>
        /\ region_ret[1] \in Regions
        /\ region_ret[1] = SpecifiedRegion(region_arg, region_arg.language)

\* C18, amended: the same, with an empty language of an SDS read as "en".
C18_RegionEqualsTableEmptyAsEn ==
    region_ret # None =>
        /\ region_ret[1] \in Regions
        /\ region_ret[1] =
              SpecifiedRegion(region_arg,
                  IF region_arg.language = <<>> THEN <<"e","n">> ELSE region_arg.language)

\* An SDS without a language and without inventories was resolved to EU.
C18_Witness ==
    /\ region_arg.document_type = "SDS"
    /\ region_arg.language = <<>>
    /\ region_arg.global_inventories = <<>>
    /\ region_ret = Some("EU")


(***************************************************************************)
(* C19: product groups.                                                    *)
(***************************************************************************)
\* The partials of a group whose result has identity.product_name populated,
\* and those with a non-empty document_info.brand.
Named(g) ==
    { k \in 1..Len(g.partial_extractions) :
         /\ ~IsEmptyDict(g.partial_extractions[k].extraction_result)
         /\ g.partial_extractions[k].extraction_result.identity.product_name # "" }

Branded(g) ==
    { k \in 1..Len(g.partial_extractions) :
         /\ ~IsEmptyDict(g.partial_extractions[k].extraction_result)
         /\ g.partial_extractions[k].extraction_result.document_info.brand # "" }

First(S) == CHOOSE k \in S : \A j \in S : k <= j

\* Every partial is in exactly the group of its source file's parent directory.
GroupedByParent(partials, groups) ==
    /\ \A a \in 1..Len(groups) : \A b \in 1..Len(groups) :
          groups[a].product_folder = groups[b].product_folder => a = b
    /\ \A k \in 1..Len(partials) : \E a \in 1..Len(groups) :
          groups[a].product_folder = path_parent(partials[k].source_file)
    /\ \A a \in 1..Len(groups) :
          /\ groups[a].partial_extractions # <<>>
          /\ groups[a].partial_extractions =
                SelectSeq(partials,
                    LAMBDA p : path_parent(p.source_file) = groups[a].product_folder)

NameOfFirstNamed(g) ==
    g.product_name =
        IF Named(g) = {} THEN path_name(g.product_folder)
        ELSE g.partial_extractions[First(Named(g))].extraction_result.identity.product_name

BrandOfFirstBranded(g) ==
    g.brand =
        IF Branded(g) = {} THEN ""
        ELSE g.partial_extractions[First(Branded(g))].extraction_result.document_info.brand

\* C19: group_by_product puts every partial in exactly the group of its source
\* file's parent directory; each group's product_name is the
\* identity.product_name of its first partial that has one, the folder
\* basename only if none has one; its brand is the first non-empty
\* document_info.brand of its partials.
C19_GroupsNamedByFirstPartial ==
    product_groups # None =>
        /\ GroupedByParent(grouped, product_groups[1])
        /\ \A a \in 1..Len(product_groups[1]) :
              /\ NameOfFirstNamed(product_groups[1][a])
              /\ BrandOfFirstBranded(product_groups[1][a])


(***************************************************************************)
(* C20: the status of an extraction run.                                   *)
(***************************************************************************)
\* Session t creates its run in this step.
RunCreated(t) == tx[t].run = None /\ tx'[t].run # None

\* The request of session t fails in this step.
RequestFailed(t) ==
    /\ tx[t].pc # "idle"
    /\ tx'[t].pc = "idle"
    /\ last_response'.req_no = tx[t].req_no
    /\ last_response'.status = 500

\* The rows of the run of session t that were persisted before the step.
PersistedBy(t) == { r \in rows : r.run_id = tx[t].run[1].id }

\* When the request of a session fails, its run is in the store with status
\* failed and an error_message, and the rows it had persisted are still there.
FailedRunIsRecorded ==
    \A t \in Sessions :
        RequestFailed(t) =>
            /\ \E r \in runs' : /\ r.id = tx[t].run[1].id
                                /\ r.status = "failed"
                                /\ r.error_message # None
            /\ PersistedBy(t) \subseteq rows'

\* C20: every extraction run starts in status running and every run in the
\* store is running, completed or failed; when persisting fails the run is
\* recorded with status failed and its error_message, and the Golden Records
\* it had persisted remain.
C20_RunsEndCompletedOrFailed ==
    [][/\ \A t \in Sessions : RunCreated(t) => tx'[t].run[1].status = "running"
       /\ \A r \in runs' : r.status \in {"running", "completed", "failed"}
       /\ FailedRunIsRecorded]_vars


(***************************************************************************)
(* C21: retries within a step.                                             *)
(***************************************************************************)
\* The requests the step may make: the first and max_retries retries.
AllowedRequests(env) == 1..(env.max_retries + 1)

\* C21: a provider error inside a step is retried, up to max_retries times;
\* the step ends with an error warning and an empty result only if every
\* allowed request fails, and with a normal result if one of them succeeds.
C21_ProviderErrorIsRetried ==
    (llm_step.pc = "returned" /\ llm_env.provider \in {"google", "anthropic"}) =>
        /\ llm_step.requests \in AllowedRequests(llm_env)
        /\ IsEmptyDict(llm_step.partial[1].extraction_result)
              <=> \A k \in AllowedRequests(llm_env) : llm_env.replies[k] # "ok"
        /\ (\E k \in AllowedRequests(llm_env) : llm_env.replies[k] = "ok")
              => llm_step.partial[1] = Extracted(llm_env.doc_type)


(***************************************************************************)
(* C22: the Cost Tracker's records and summary.                            *)
(***************************************************************************)
\* The records of one (provider, model).
RecordsOf(provider, model) ==
    SelectSeq(tracker_records, LAMBDA r : r.provider = provider /\ r.model = model)

RecordsAreCalls ==
    /\ Len(tracker_records) = Len(tracker_calls)
    /\ \A k \in 1..Len(tracker_records) :
          LET r == tracker_records[k]
          IN  /\ r.provider = tracker_calls[k].provider
              /\ r.model = tracker_calls[k].model
              /\ r.total_tokens = tracker_calls[k].input_tokens
                                  + tracker_calls[k].output_tokens
                                  + tracker_calls[k].cache_creation_tokens
                                  + tracker_calls[k].cache_read_tokens
              /\ r.cost_usd >= 0

SummaryTotals ==
    summary_ret # None =>
        /\ summary_ret[1].total_extractions = Len(tracker_records)
        /\ summary_ret[1].total_tokens = sum_of(tracker_records, "total_tokens")

SummaryPerProviderModel ==
    summary_ret # None =>
        \A k \in 1..Len(tracker_records) :
            LET of == RecordsOf(tracker_records[k].provider, tracker_records[k].model)
                s == summary_ret[1].providers[stats_key(tracker_records[k])]
            IN  /\ s.calls = Len(of)
                /\ s.input_tokens = sum_of(of, "input_tokens")
                /\ s.output_tokens = sum_of(of, "output_tokens")
                /\ s.cache_creation_tokens = sum_of(of, "cache_creation_tokens")
                /\ s.cache_read_tokens = sum_of(of, "cache_read_tokens")
                /\ s.total_tokens = sum_of(of, "total_tokens")

RunCompleted == cli.partials # <<>> /\ cli_env.export_ok

\* C23: an invocation exits with code 0 whenever the run completes, even if
\* some PDFs failed, and with a non-zero code when the input directory does
\* not exist or the API key is missing.
C23_ExitCodes ==
    cli.pc = "exited" =>
        /\ RunCompleted /\ cli_env.input_dir_exists /\ cli_env.api_key
              => cli.exit_code = Some(0)
        /\ (~cli_env.input_dir_exists \/ ~cli_env.api_key) => cli.exit_code # Some(0)


(***************************************************************************)
(* C24: the /extract-batch response.                                       *)
(***************************************************************************)
\* The request passes the validation of the route.
UploadAccepted ==
    /\ Len(upload) \in 1..MAX_BATCH_FILES
    /\ \A k \in 1..Len(upload) : ~not_a_pdf(upload[k]) /\ ~upload[k].oversized

\* C24: the response to an accepted request has one result per uploaded file,
\* in upload order and with the file's original name; the result of a partial
\* with an empty extraction_result has success = false and an error, that of
\* any other partial success = true; successful_count + failed_count is the
\* number of files and success is true iff successful_count > 0.
C24_OneResultPerUpload ==
    (batch_call.pc = "responded" /\ UploadAccepted) =>
        LET response == batch_call.response[1]
        IN  /\ Len(response.results) = Len(upload)
            /\ \A k \in 1..Len(upload) :
                  /\ response.results[k].filename = upload[k].filename
                  /\ upload[k].outcome = "empty"
                        => ~response.results[k].success /\ response.results[k].has_error
                  /\ upload[k].outcome # "empty" => response.results[k].success
            /\ response.successful_count + response.failed_count = Len(upload)
            /\ response.success <=> response.successful_count > 0


(***************************************************************************)
(* The order of the steps of process_single_pdf.                           *)
(***************************************************************************)
\* The extractor class registered for a doc type; the TDS extractor for a
\* doc type that has none ("unknown").
RegisteredExtractor(doc_type) ==
    CASE doc_type = "SDS" -> "SDSExtractor"
      [] doc_type = "RPI" -> "RPIExtractor"
      [] doc_type = "CoA" -> "CoAExtractor"
      [] doc_type = "Brochure" -> "BrochureExtractor"
      [] OTHER -> "TDSExtractor"

\* The calls of a run of process_single_pdf that went through every step.
FullOrder(doc_type) ==
    <<"parse_pdf", "classify", RegisteredExtractor(doc_type), "should_audit",
      "audit", "apply_corrections">>

IsPrefix(s, t) == Len(s) <= Len(t) /\ \A i \in 1..Len(s) : s[i] = t[i]

\* process_single_pdf is over: it returned or it raised.
SinglePdfOver == pipe.pc \in {"returned", "raised"}

\* The steps are taken in order, and the extractor is the registered one.
StepsInOrder ==
    \E doc_type \in ClassifiedDocTypes :
        /\ IsPrefix(pipe.calls, FullOrder(doc_type))
        /\ Len(pipe.calls) >= 3 => doc_type = pipe.doc_type

\* No agent is called for a PDF that cannot be parsed.
NoCallAfterParseFailure ==
    (SinglePdfOver /\ pipe.failed = "parse") => pipe.calls = <<"parse_pdf">>

\* The auditor is not called unless the trigger fired on an extracted partial.
AuditedOnlyIfTriggered ==
    (Len(pipe.calls) >= 5) => pipe.audit_triggered = "yes"

\* The auditor is called whenever the trigger fired.
AuditedIfTriggered ==
    (SinglePdfOver /\ pipe.audit_triggered = "yes") => Len(pipe.calls) >= 5

\* C25: in every run of process_single_pdf the calls are made in the order
\* parse, classify, extract, audit trigger, audit, apply corrections; when
\* parsing fails nothing else is called; the extractor is the one registered
\* for the classifier's doc_type (the TDS extractor for unknown); and when the
\* run is over the auditor was called if and only if the trigger fired.
C25_StepsInOrderAuditIffTriggered ==
    /\ StepsInOrder
    /\ NoCallAfterParseFailure
    /\ AuditedOnlyIfTriggered
    /\ AuditedIfTriggered

(***************************************************************************)
(* Properties of apply_corrections.                                        *)
(***************************************************************************)
\* The fields of an extraction result, as (section, field) pairs.
FieldsOf(extraction) ==
    UNION { IF extraction[s].is_dict
            THEN { <<s, f>> : f \in DOMAIN extraction[s].fields } ELSE {} :
            s \in DOMAIN extraction }

\* A correction names the field sf of the given result: as section.field, or
\* as the bare field when sf's section is the first that has the field.
NamesField(correction, sf) ==
    LET given == correcting.given.extraction_result
        joined == sf[1] \o <<".">> \o sf[2]
    IN  /\ sf \in FieldsOf(given)
        /\ \/ correction.field_name = joined
           \/ /\ correction.field_name = sf[2]
              /\ \A k \in 1..Len(SECTION_ORDER) :
                    <<SECTION_ORDER[k], sf[2]>> \in FieldsOf(given)
                       => \E j \in 1..k : SECTION_ORDER[j] = sf[1]

Resolves(correction) ==
    \E sf \in FieldsOf(correcting.given.extraction_result) : NamesField(correction, sf)

\* The corrections that were applied: path resolved, value not null, and the
\* field a Fact or a string.
AppliedTo(sf) ==
    { k \in 1..Len(correcting.corrections) :
         /\ NamesField(correcting.corrections[k], sf)
         /\ correcting.corrections[k].corrected_value # None
         /\ correcting.given.extraction_result[sf[1]].fields[sf[2]].kind
               \in {"fact", "str"} }

AppliedCount ==
    Cardinality(UNION { AppliedTo(sf) : sf \in FieldsOf(correcting.given.extraction_result) })

NullCorrections ==
    { k \in 1..Len(correcting.corrections) :
         correcting.corrections[k].corrected_value = None }

AddedWarnings ==
    SubSeq(corrected[1].warnings, Len(correcting.given.warnings) + 1,
           Len(corrected[1].warnings))

IsFlag(w) == w.kind = "may be incorrect"

IsAppliedWarning(w) == w.kind = "corrections applied"

\* The result has the sections and fields it had; a field differs only if a
\* correction with a value names it; a changed Fact has the value of the last
\* such correction and confidence medium and is otherwise as it was; a field
\* no applied correction names is as it was.
OnlyNamedFieldsChange ==
    LET given == correcting.given.extraction_result
        after == corrected[1].extraction_result
    IN  /\ DOMAIN after = DOMAIN given
        /\ \A s \in DOMAIN given :
              /\ after[s].is_dict = given[s].is_dict
              /\ DOMAIN after[s].fields = DOMAIN given[s].fields
        /\ \A sf \in FieldsOf(given) :
              LET old == given[sf[1]].fields[sf[2]]
                  new == after[sf[1]].fields[sf[2]]
              IN  IF AppliedTo(sf) = {} THEN new = old
                  ELSE LET last == CHOOSE k \in AppliedTo(sf) :
                                       \A j \in AppliedTo(sf) : j <= k
                       IN  /\ new.kind = old.kind
                           /\ new.value = correcting.corrections[last].corrected_value[1]
                           /\ new.unit = old.unit
                           /\ new.source_section = old.source_section
                           /\ old.kind = "fact" => new.confidence = "medium"

\* "Audit: N corrections applied" is added, once and last, exactly when
\* N >= 1 corrections were applied.
AppliedWarningIffApplied ==
    /\ SubSeq(corrected[1].warnings, 1, Len(correcting.given.warnings))
          = correcting.given.warnings
    /\ IF AppliedCount >= 1
       THEN /\ AddedWarnings # <<>>
            /\ AddedWarnings[Len(AddedWarnings)] = AppliedWarning(AppliedCount)
            /\ Cardinality({ k \in 1..Len(AddedWarnings) :
                                IsAppliedWarning(AddedWarnings[k]) }) = 1
       ELSE \A k \in 1..Len(AddedWarnings) : ~IsAppliedWarning(AddedWarnings[k])

\* C26: apply_corrections changes a field only if a correction names it by a
\* path that resolves and has a corrected_value; of a Fact only value and
\* confidence (medium) change; every correction with a null corrected_value
\* adds a warning; 'Audit: N corrections applied' is added exactly when
\* N >= 1.
C26_EveryNullCorrectionWarns ==
    corrected # None =>
        /\ OnlyNamedFieldsChange
        /\ AppliedWarningIffApplied
        /\ SelectSeq(AddedWarnings, IsFlag)
              = [k \in 1..Cardinality(NullCorrections) |->
                    FlagWarning(correcting.corrections[
                        CHOOSE i \in NullCorrections :
                            Cardinality({ j \in NullCorrections : j <= i }) = k
                    ].field_name)]

\* The null corrections whose path resolves to an existing field.
ResolvedNullCorrections ==
    { k \in NullCorrections : Resolves(correcting.corrections[k]) }

\* C26, amended: as above, but a correction with a null corrected_value adds
\* its warning only when its path resolves to an existing field; one whose
\* path does not resolve adds nothing.
C26_ResolvedNullCorrectionWarns ==
    corrected # None =>
        /\ OnlyNamedFieldsChange
        /\ AppliedWarningIffApplied
        /\ SelectSeq(AddedWarnings, IsFlag)
              = [k \in 1..Cardinality(ResolvedNullCorrections) |->
                    FlagWarning(correcting.corrections[
                        CHOOSE i \in ResolvedNullCorrections :
                            Cardinality({ j \in ResolvedNullCorrections : j <= i }) = k
                    ].field_name)]

\* A Fact was corrected by its bare name, a null correction of an existing
\* field and one of a field that is not there were given.
C26_Witness ==
    /\ corrected # None
    /\ Len(correcting.corrections) = 2
    /\ \E s \in DOMAIN corrected[1].extraction_result :
          /\ corrected[1].extraction_result[s].is_dict
          /\ \E f \in DOMAIN corrected[1].extraction_result[s].fields :
                /\ corrected[1].extraction_result[s].fields[f].kind = "fact"
                /\ corrected[1].extraction_result[s].fields[f].confidence = "medium"
    /\ \E k \in NullCorrections : k \notin ResolvedNullCorrections

(***************************************************************************)
(* The conflict warnings of a merge.                                       *)
(***************************************************************************)
\* The modelled fields that hold a single Fact, and the section of a field.
FactKeys == (SINGLE_MENDELFACT_FIELDS \cup {"cas_numbers"}) \cap ResultKeys

SectionOf(key) ==
    CHOOSE s \in DOMAIN SectionKeys :
        \E k \in 1..Len(SectionKeys[s]) : SectionKeys[s][k] = key

\* A Fact that carries a value.
HasValue(v) == IsDict(v) /\ FactValue(v) # PyNone

\* The value held for a field when the j-th partial, by priority, is merged:
\* that of the first partial before it that has the field.
Held(partials, key, j) ==
    LET has == { k \in 1..(j - 1) :
                    /\ ~IsEmptyDict(partials[k].extraction_result)
                    /\ partials[k].extraction_result[key] # PyNone }
    IN  IF has = {} THEN PyNone
        ELSE partials[CHOOSE k \in has : \A i \in has : k <= i].extraction_result[key]

\* The lower-priority partials that carry a Fact whose value differs from the
\* one held.
Conflicts(partials) ==
    { c \in FactKeys \X (2..Len(partials)) :
         /\ ~IsEmptyDict(partials[c[2]].extraction_result)
         /\ HasValue(partials[c[2]].extraction_result[c[1]])
         /\ HasValue(Held(partials, c[1], c[2]))
         /\ FactValue(partials[c[2]].extraction_result[c[1]])
               # FactValue(Held(partials, c[1], c[2])) }

IsConflictWarning(w) == w[1] = "Conflict in"

ConflictWarnedAndKept(partials) ==
    /\ \A c \in Conflicts(partials) :
          merge_out.result[c[1]] = Held(partials, c[1], c[2])
    /\ { w \in merge_out.extraction_warnings : IsConflictWarning(w) }
          = { ConflictWarning(SectionOf(c[1]), c[1],
                              FactValue(Held(partials, c[1], c[2])),
                              FactValue(partials[c[2]].extraction_result[c[1]]),
                              partials[c[2]].doc_type) : c \in Conflicts(partials) }

\* C27: in a merge, whenever a lower-priority partial carries a Fact whose
\* value differs from the value held for the field, the held value is kept
\* and the merged extraction_warnings have the conflict warning with the
\* section.field, the kept value, the discarded value and the partial's
\* doc_type; there is no conflict warning for values that agree or when one
\* side has no value.
C27_ConflictsAreWarned ==
    (merge_out.status = "ok" /\ Len(group) >= 2) =>
        ConflictWarnedAndKept(sorted_partials(group))

(***************************************************************************)
(* When the fallback extractor is called, in BatchExtractorService.extract *)
(* and in ExtractorService.extract.                                        *)
(***************************************************************************)
\* The fallback extractor raised, or returned an error.
FallbackFailed ==
    /\ extract_call.fallback_calls > 0
    /\ extract_call.fallback = None \/ extract_call.fallback[1].error

\* The cascade is enabled, there is a fallback, and n missing attributes are
\* more than the threshold.
OverThreshold(n) ==
    /\ cascade.cascade_enabled
    /\ cascade.has_fallback
    /\ n > cascade.cascade_threshold

BatchFallbackIffNeeded ==
    extract_call.pc = "done" =>
        /\ extract_call.fallback_calls =
              IF ~extract_call.primary.error /\ OverThreshold(extract_call.primary.missing)
              THEN 1 ELSE 0
        /\ FallbackFailed => extract_call.returned = extract_call.primary

ServiceFallbackIffNeeded ==
    /\ service_call.pc = "raised" => service_call.fallback_calls = 0
    /\ service_call.pc = "done" =>
        /\ service_call.fallback_calls =
              IF OverThreshold(service_call.primary[1]) THEN 1 ELSE 0
        /\ (service_call.fallback_calls > 0 /\ service_call.fallback = None) =>
              /\ service_call.returned[1].provider = "primary"
              /\ service_call.returned[1].missing = service_call.primary[1]

\* C28: in an extract call that is over, the fallback extractor was called,
\* once, if the cascade is enabled, there is a fallback extractor, the
\* primary extraction succeeded and its missing_attributes are more than the
\* threshold, and it was not called otherwise; if the fallback call failed,
\* the primary result is returned.
C28_FallbackIffNeeded ==
    /\ BatchFallbackIffNeeded
    /\ ServiceFallbackIffNeeded

\* The second document of a batch service: the cascade triggered, the
\* fallback extractor raised and the primary result was returned; and the
\* same in ExtractorService.
C28_Witness ==
    /\ extract_call.pc = "done"
    /\ extract_call.calls = 2
    /\ extract_call.fallback_calls = 1
    /\ extract_call.fallback = None
    /\ extract_call.returned = extract_call.primary
    /\ service_call.pc = "done"
    /\ service_call.fallback_calls = 1
    /\ service_call.fallback = None
    /\ service_call.returned[1].fallback_warning

(***************************************************************************)
(* What merge does to the group it is given.                               *)
(***************************************************************************)
\* C29: merge(group) leaves its input as it was: after the call the group's
\* partial_extractions are in the same order and every partial has the
\* extraction_result, missing_fields and warnings it had before, for any
\* number of partials, also with an empty highest-priority partial.
C29_MergeKeepsItsInput ==
    merge_out.status # "none" =>
        /\ Len(merge_out.partials) = Len(group)
        /\ \A k \in 1..Len(group) :
              /\ merge_out.partials[k].extraction_result = group[k].extraction_result
              /\ merge_out.partials[k].missing_fields = group[k].missing_fields
              /\ merge_out.partials[k].warnings = group[k].warnings

(***************************************************************************)
(* The golden_records_count of an ExtractionRun.                           *)
(***************************************************************************)
\* The GoldenRecord rows of a run.
RowsOfRun(run_id) == { r \in rows : r.run_id = run_id }

\* C30: after a successful /confirm request the golden_records_count of its
\* ExtractionRun is the number of GoldenRecord rows with that run_id, which
\* is the golden_records_created of the response, also when the request has
\* several successful results for the same (product_name, region).
C30_RunCountsItsRows ==
    last_response.status = 200 =>
        \A run \in runs :
            run.id = last_response.run_id =>
                /\ run.golden_records_count = Cardinality(RowsOfRun(run.id))
                /\ run.golden_records_count = last_response.golden_records_created
====
